---- MODULE Spec2Model ----
(***************************************************************************)
(* The patched source of cargo's `patch-files` feature:                    *)
(*   src/cargo/sources/patched.rs  PatchedSource (query, download,         *)
(*                                 download_and_patch, patched_src_dir)    *)
(*   src/cargo/util/patch.rs       apply_patch_file                        *)
(* Several cargo invocations (processes) share one patched-src cache       *)
(* directory.  Each invocation owns one PatchedSource.                     *)
(***************************************************************************)
EXTENDS Integers, Sequences, FiniteSets, TLC

\* Number of cargo invocations sharing the cache directory.
NumProcs == 2

Procs == 1..NumProcs

----------------------------------------------------------------------------
(* Files and trees.  A tree maps every path to its content, or to NoFile.   *)

NoFile == "absent"

\* patched.rs:33
READY_LOCK == ".cargo-ok"

\* A file next to a destination directory, as a path relative to it.
OutsidePath == <<"..", "outside.rs">>

\* The paths dst.join(path) can name: files below dst, and one outside it.
Paths ==
    { <<"Cargo.toml">>, <<"src", "lib.rs">>, <<"src", "new.rs">>,
      <<"bar", "Cargo.toml">>, <<"baz", "Cargo.toml">>, <<"bar", "lib.rs">>,
      OutsidePath }

EmptyTree == [p \in Paths |-> NoFile]

FilesOf(tree) == {p \in Paths : tree[p] # NoFile}

\* Manifest contents and what PathSource::root_package reads from them.
ManifestTable ==
    [ m_bar_100 |-> [name |-> "bar", version |-> "1.0.0", deps |-> {}],
      m_bar_101 |-> [name |-> "bar", version |-> "1.0.1", deps |-> {"baz"}],
      m_baz_100 |-> [name |-> "baz", version |-> "1.0.0", deps |-> {}] ]

IsManifest(content) == content \in DOMAIN ManifestTable

----------------------------------------------------------------------------
(* Source identifiers and package identifiers.                              *)

\* patched.rs:233: the directory name keeps this many characters of the checksum.
ShortCksumLen == 8

\* A patch checksum is a hex digest; only its digits matter here.
CkHello   == <<4, 6, 8, 0, 6, 11, 9, 4, 3>>
CkVersion == <<4, 6, 8, 0, 6, 11, 9, 4, 7>>
CkGit     == <<14, 8, 4, 15, 11, 4, 1, 5, 2>>
CkBad     == <<11, 10, 13, 0, 0, 0, 0, 0, 1>>
CkGitOne  == <<1, 15, 3, 12, 9, 9, 0, 2, 6>>
CkUnknown == <<0, 0, 0, 0, 0, 0, 0, 0, 0>>

RegUrl == "registry+https://github.com/rust-lang/crates.io-index"
GitUrl == "git+https://example.com/repo"

NoCksum == <<>>

RegistryId == [kind |-> "registry", url |-> RegUrl, precise |-> "", cksum |-> NoCksum]
GitId      == [kind |-> "git", url |-> GitUrl, precise |-> "", cksum |-> NoCksum]

InnerIds == {RegistryId, GitId}

\* SourceId of kind Patched(cksum): its url is the url of the patched source.
PatchedId(inner, ck) ==
    [kind |-> "patched", url |-> inner.url, precise |-> inner.precise, cksum |-> ck]

PatchedIds ==
    { PatchedId(RegistryId, CkHello), PatchedId(RegistryId, CkVersion),
      PatchedId(GitId, CkGit), PatchedId(RegistryId, CkBad),
      PatchedId(RegistryId, CkUnknown) }

\* Two patched ids of one git repository with different patch-sets.
GitPatchedIds == {PatchedId(GitId, CkGit), PatchedId(GitId, CkGitOne)}

AllPatchedIds == PatchedIds \cup GitPatchedIds

\* SourceId::from_url on the url of a patched id: the source being patched.
FromUrl(url) ==
    IF url = RegUrl THEN RegistryId ELSE GitId

PkgId(name, version, source) ==
    [name |-> name, version |-> version, source_id |-> source]

\* PackageId::with_source_id
WithSourceId(pkg_id, source) == [pkg_id EXCEPT !.source_id = source]

----------------------------------------------------------------------------
(* The source being patched (registry or git), as the adapter sees it.      *)

Bar100 == PkgId("bar", "1.0.0", RegistryId)
Bar110 == PkgId("bar", "1.1.0", RegistryId)
GitBar == PkgId("bar", "1.0.0", GitId)
GitBaz == PkgId("baz", "1.0.0", GitId)

InnerPkgIds == {Bar100, Bar110, GitBar, GitBaz}

Summary(pkg_id) == [package_id |-> pkg_id]

\* What query_vec of the source being patched may answer with Ready(Ok(..)).
QueryAnswers(inner) ==
    IF inner = RegistryId
    THEN { <<>>, <<Summary(Bar100)>>, <<Summary(Bar100), Summary(Bar110)>> }
    ELSE { <<>>, <<Summary(GitBar)>>, <<Summary(GitBaz)>>,
           <<Summary(GitBar), Summary(GitBaz)>> }

\* Package::root() of a package downloaded from the source being patched.
RegSrcRoot == <<"registry-src", "bar-1.0.0">>
GitCheckout == <<"git-checkouts", "repo">>

OrigRoot(pkg_id) ==
    IF pkg_id.source_id = RegistryId THEN RegSrcRoot
    ELSE GitCheckout \o <<pkg_id.name>>

\* The directories that hold a `.git` entry.
HasDotGit(dir) == dir = GitCheckout

RegTree ==
    [p \in Paths |->
        IF p = <<"Cargo.toml">> THEN "m_bar_100"
        ELSE IF p = <<"src", "lib.rs">> THEN "lib_empty"
        ELSE NoFile]

GitTree ==
    [p \in Paths |->
        IF p = <<"bar", "Cargo.toml">> THEN "m_bar_100"
        ELSE IF p = <<"baz", "Cargo.toml">> THEN "m_baz_100"
        ELSE NoFile]

\* The files below a directory of the source being patched.
SrcTree(src_root) ==
    IF src_root = RegSrcRoot THEN RegTree
    ELSE IF src_root = GitCheckout THEN GitTree
    ELSE EmptyTree

Parent(path) == SubSeq(path, 1, Len(path) - 1)

RECURSIVE find_git_repo_root(_)
\* patched.rs:273-287
find_git_repo_root(current) ==
    IF HasDotGit(current) THEN [ok |-> TRUE, root |-> current]
    ELSE IF Len(current) = 0 THEN [ok |-> FALSE, root |-> <<>>]
    ELSE find_git_repo_root(Parent(current))

\* Path::strip_prefix(..).unwrap_or_default()
StripPrefixPath(path, prefix) ==
    IF Len(prefix) <= Len(path) /\ SubSeq(path, 1, Len(prefix)) = prefix
    THEN SubSeq(path, Len(prefix) + 1, Len(path))
    ELSE <<>>

----------------------------------------------------------------------------
(* Patch files and apply_patch_file (util/patch.rs).                        *)

\* A registry that answers for every checksum.
Registered_any == {CkHello, CkVersion, CkGit, CkGitOne, CkBad, CkUnknown}

\* GlobalContext::get_patch_paths: the registered patch files of a checksum.
Registered == {CkHello, CkVersion, CkGit, CkGitOne, CkBad}

PatchPaths(ck) ==
    IF ck = CkHello THEN <<"patches/hello.patch">>
    ELSE IF ck = CkVersion THEN <<"patches/version.patch">>
    ELSE IF ck = CkGit THEN <<"patches/one.patch", "patches/two.patch">>
    ELSE IF ck = CkGitOne THEN <<"patches/one.patch">>
    ELSE IF ck = CkBad THEN <<"patches/bad.patch">>
    ELSE <<>>

Modify(from, to, old, new) ==
    [op |-> "Modify", from |-> from, to |-> to, old |-> old, new |-> new]
Create(to, new) ==
    [op |-> "Create", from |-> <<>>, to |-> to, old |-> "", new |-> new]
Delete(from, old) ==
    [op |-> "Delete", from |-> from, to |-> <<>>, old |-> old, new |-> ""]

\* diffy::PatchSet::from_str of each patch file: its file patches, in order.
PatchSetOf(patch_file) ==
    IF patch_file = "patches/hello.patch"
    THEN << Modify(<<"a", "src", "lib.rs">>, <<"b", "src", "lib.rs">>,
                   "lib_empty", "lib_hello") >>
    ELSE IF patch_file = "patches/version.patch"
    THEN << Modify(<<"a", "Cargo.toml">>, <<"b", "Cargo.toml">>,
                   "m_bar_100", "m_bar_101"),
            Create(<<"b", "src", "new.rs">>, "lib_explode"),
            Delete(<<"a", "src", "lib.rs">>, "lib_empty") >>
    ELSE IF patch_file = "patches/one.patch"
    THEN << Create(<<"b", "bar", "lib.rs">>, "lib_hello") >>
    ELSE IF patch_file = "patches/two.patch"
    THEN << Modify(<<"a", "bar", "lib.rs">>, <<"b", "src", "lib.rs">>,
                   "lib_hello", "lib_hola") >>
    ELSE IF patch_file = "patches/bad.patch"
    THEN << Create(<<"b", "src", "new.rs">>, "lib_explode"),
            Modify(<<"a", "src", "lib.rs">>, <<"b", "src", "lib.rs">>,
                   "lib_other", "lib_hello") >>
    ELSE <<>>

\* FileOperation::strip_prefix(1): drop the first component of a path.
StripComponents(path) == IF Len(path) > 0 THEN Tail(path) ELSE path

\* diffy::apply(original, patch): the hunk applies when the base is the text
\* the hunk was made from.
DiffyApply(original, fp) ==
    IF original = fp.old THEN [ok |-> TRUE, text |-> fp.new]
    ELSE [ok |-> FALSE, text |-> original]

\* An applier whose rename leaves the source file in place.
ApplyFilePatch_renameKeepsSource(tree, fp) ==
    LET from == StripComponents(fp.from)
        to   == StripComponents(fp.to)
    IN  IF fp.op = "Delete"
        THEN IF tree[from] = NoFile
             THEN [ok |-> FALSE, tree |-> tree]
             ELSE [ok |-> TRUE, tree |-> [tree EXCEPT ![from] = NoFile]]
        ELSE IF fp.op = "Create"
        THEN [ok |-> TRUE, tree |-> [tree EXCEPT ![to] = fp.new]]
        ELSE IF tree[from] = NoFile \/ tree[from] # fp.old
             THEN [ok |-> FALSE, tree |-> tree]
             ELSE [ok |-> TRUE, tree |-> [tree EXCEPT ![to] = fp.new]]

\* An applier that takes the deletion of a file that is not there as done.
ApplyFilePatch_deleteMissingOk(tree, fp) ==
    LET from == StripComponents(fp.from)
        to   == StripComponents(fp.to)
    IN  IF fp.op = "Delete"
        THEN [ok |-> TRUE, tree |-> [tree EXCEPT ![from] = NoFile]]
        ELSE IF fp.op = "Create"
        THEN [ok |-> TRUE, tree |-> [tree EXCEPT ![to] = fp.new]]
        ELSE IF tree[from] = NoFile \/ tree[from] # fp.old
             THEN [ok |-> FALSE, tree |-> tree]
             ELSE [ok |-> TRUE,
                   tree |-> IF from # to
                            THEN [tree EXCEPT ![to] = fp.new, ![from] = NoFile]
                            ELSE [tree EXCEPT ![to] = fp.new]]

\* patch.rs:36-66, one file patch applied to the tree below dst.
ApplyFilePatch(tree, fp) ==
    LET from == StripComponents(fp.from)
        to   == StripComponents(fp.to)
    IN  IF fp.op = "Delete"
        THEN IF tree[from] = NoFile
             THEN [ok |-> FALSE, tree |-> tree]
             ELSE [ok |-> TRUE, tree |-> [tree EXCEPT ![from] = NoFile]]
        ELSE IF fp.op = "Create"
        THEN LET patched == DiffyApply("", fp)
             IN  IF patched.ok
                 THEN [ok |-> TRUE, tree |-> [tree EXCEPT ![to] = patched.text]]
                 ELSE [ok |-> FALSE, tree |-> tree]
        ELSE IF tree[from] = NoFile
             THEN [ok |-> FALSE, tree |-> tree]
             ELSE LET patched == DiffyApply(tree[from], fp)
                  IN  IF ~patched.ok
                      THEN [ok |-> FALSE, tree |-> tree]
                      ELSE LET written == [tree EXCEPT ![to] = patched.text]
                           IN  [ok |-> TRUE,
                                tree |-> IF from # to
                                         THEN [written EXCEPT ![from] = NoFile]
                                         ELSE written]

RECURSIVE ApplyFilePatches(_, _)
\* patch.rs:36-69: the file patches in order, stopping at the first failure.
ApplyFilePatches(tree, fps) ==
    IF fps = <<>> THEN [ok |-> TRUE, tree |-> tree]
    ELSE LET r == ApplyFilePatch(tree, Head(fps))
         IN  IF r.ok THEN ApplyFilePatches(r.tree, Tail(fps)) ELSE r

\* patch.rs:26-70
apply_patch_file(patch_file, tree) ==
    LET patchset == PatchSetOf(patch_file)
    IN  IF patchset = <<>> THEN [ok |-> FALSE, tree |-> tree]
        ELSE ApplyFilePatches(tree, patchset)

RECURSIVE ApplyPatchFiles(_, _)
\* patched.rs:209-215: the patch files in order, stopping at the first failure.
ApplyPatchFiles(tree, patch_files) ==
    IF patch_files = <<>> THEN [ok |-> TRUE, tree |-> tree]
    ELSE LET r == apply_patch_file(Head(patch_files), tree)
         IN  IF r.ok THEN ApplyPatchFiles(r.tree, Tail(patch_files)) ELSE r

----------------------------------------------------------------------------
(* The patched-src cache directory and the destination of a package.        *)

NoSource == [kind |-> "none", url |-> "", precise |-> "", cksum |-> NoCksum]
NoPkgId == PkgId("", "", NoSource)

NoDir == [ident |-> "", hash |-> <<>>, rev |-> "", name |-> "", version |-> "",
          cksum |-> NoCksum]

\* Url::host_str
HostStr(url) == IF url = RegUrl THEN "github.com" ELSE "example.com"

\* hex::short_hash of a source id: a digest of its kind and url.
ShortHash(id) == <<id.kind, id.url>>

Min(a, b) == IF a < b THEN a ELSE b

\* patched.rs:232-233
ShortCksum(ck) == SubSeq(ck, 1, Min(Len(ck), ShortCksumLen))

\* SourceId::precise_git_fragment().unwrap_or("HEAD")
GitRev(id) == IF id.precise = "" THEN "HEAD" ELSE id.precise

\* A directory per package for a git source too.
patched_src_dir_gitPerPackage(self_id, inner, pkg_id, is_git) ==
    [ident |-> HostStr(inner.url), hash |-> ShortHash(inner),
     rev |-> IF is_git THEN GitRev(inner) ELSE "",
     name |-> pkg_id.name, version |-> pkg_id.version,
     cksum |-> ShortCksum(self_id.cksum)]

\* patched.rs:224-249, for the patched source `self_id` wrapping `inner`.
patched_src_dir(self_id, inner, pkg_id, is_git) ==
    IF is_git
    THEN [ident |-> HostStr(inner.url), hash |-> ShortHash(inner),
          rev |-> GitRev(inner), name |-> "", version |-> "",
          cksum |-> ShortCksum(self_id.cksum)]
    ELSE [ident |-> HostStr(inner.url), hash |-> ShortHash(inner),
          rev |-> "", name |-> pkg_id.name, version |-> pkg_id.version,
          cksum |-> ShortCksum(self_id.cksum)]

\* Every (patched source, package of the wrapped source) a query can reach.
Targets ==
    { t \in AllPatchedIds \X InnerPkgIds :
        t[1].cksum \in Registered /\ t[2].source_id = FromUrl(t[1].url) }

DstOf(t) ==
    patched_src_dir(t[1], FromUrl(t[1].url), WithSourceId(t[2], t[1]),
                    FromUrl(t[1].url).kind = "git")

Dsts == {DstOf(t) : t \in Targets}

\* A directory that does not exist.
NoEntry == [exists |-> FALSE, ok |-> FALSE, files |-> EmptyTree]

----------------------------------------------------------------------------
VARIABLES
    fs,                 \* the patched-src directory: Dsts -> entry
    lock,               \* holder of the download-exclusive cache lock, 0 if free
    pc,                 \* where each invocation stands
    source_id,          \* PatchedSource.source_id
    to_patch,           \* PatchedSource.to_patch (source id of the boxed source)
    patch_paths,        \* PatchedSource.patch_paths
    patched_packages,   \* PatchedSource.patched_packages
    call,               \* locals of the running download_and_patch
    yielded_ids,        \* history: package ids of the summaries the queries yielded
    marker_writers,     \* history: who wrote the marker of each entry
    last,               \* what the step just taken handed to its caller, if anything
    trace,              \* whether `last` is kept (it is history, not program state)
    ap,                 \* a run of apply_patches on its own: its inputs and progress
    mf,                 \* one dependency entry of a manifest and what parsing made of it
    idn,                \* a source id on its way to its url and back, or two registrations
    walk,               \* a run of find_git_repo_root and the package root it leads to
    qp,                 \* a url query under remove_query_params
    db,                 \* the static DB of Db::open and the threads that call it
    rv                  \* a git repository whose branch moves, and its patched entries

vars == <<fs, lock, pc, source_id, to_patch, patch_paths, patched_packages,
          call, yielded_ids, marker_writers, last, trace, ap, mf, idn,
          walk, qp, db, rv>>

NoPackage == [package_id |-> NoPkgId, deps |-> {}, dst |-> NoDir, sub |-> <<>>]

NoCall ==
    [orig |-> NoPkgId, src_root |-> <<>>, sub |-> <<>>, is_git |-> FALSE,
     dst |-> NoDir, found |-> "", copied |-> {}, pi |-> 1, oi |-> 1,
     wrote |-> FALSE, inner |-> "", n |-> 0]

\* No call returned in the step just taken.
NoEvent ==
    [proc |-> 0, op |-> "", poll |-> "", err |-> "", inner |-> "", n |-> 0,
     yielded |-> <<>>, pkg |-> NoPackage, req |-> NoPkgId, req_yielded |-> FALSE,
     orig |-> NoPkgId, dst |-> NoDir, found |-> "", wrote |-> FALSE,
     sid |-> NoSource, fp |-> <<>>]

\* The state after construction of the invocations, before any call.
Start ==
    /\ fs = [d \in Dsts |-> NoEntry]
    /\ lock = 0
    /\ pc = [p \in Procs |-> "init"]
    /\ source_id = [p \in Procs |-> NoSource]
    /\ to_patch = [p \in Procs |-> NoSource]
    /\ patch_paths = [p \in Procs |-> <<>>]
    /\ patched_packages = [p \in Procs |-> {}]
    /\ call = [p \in Procs |-> NoCall]
    /\ yielded_ids = [p \in Procs |-> {}]
    /\ marker_writers = [d \in Dsts |-> {}]
    /\ last = NoEvent

\* No run of apply_patches on its own.
ApIdle ==
    [set |-> <<>>, tree0 |-> EmptyTree, tree |-> EmptyTree, dirs |-> {},
     i |-> 1, k |-> 1, status |-> "idle", err |-> ""]

\* No dependency entry is being parsed.
MfIdle ==
    [in_patch_table |-> FALSE, url |-> "", patch_files |-> FALSE,
     manifest_is_path |-> TRUE,
     orig |-> [git |-> FALSE, path |-> FALSE, registry |-> "", version |-> <<>>,
               has_patches |-> FALSE, patches |-> <<>>],
     cwd |-> [abs |-> TRUE, comps |-> <<>>], files_exist |-> TRUE,
     status |-> "idle", err |-> "", warned |-> "", source_id |-> NoSource,
     patch_info |-> <<>>, opened |-> <<>>]

\* No source id is being written or read, no patch files are being registered.
\* No walk, no url and no thread at Db::open.
WalkIdle == [dotgit |-> {}, start |-> <<>>, current |-> <<>>, status |-> "idle",
             root |-> <<>>, pkg_root |-> <<>>]

QpIdle == [status |-> "idle"]

DbIdle == [status |-> "idle"]

RvIdle == [status |-> "idle"]

IdnIdle ==
    [op |-> "idle", phase |-> "idle", id |-> NoSource, url |-> <<>>,
     back |-> NoSource, files |-> <<>>, lists |-> <<>>, cksums |-> <<>>]

Init ==
    /\ Start /\ trace = FALSE /\ ap = ApIdle /\ mf = MfIdle /\ idn = IdnIdle
    /\ walk = WalkIdle /\ qp = QpIdle /\ db = DbIdle /\ rv = RvIdle

\* The step just taken hands `ev` to its caller.
Emit(ev) ==
    /\ last' = IF trace THEN ev ELSE NoEvent
    /\ trace' = trace
    /\ ap' = ap
    /\ mf' = mf
    /\ idn' = idn
    /\ walk' = walk
    /\ qp' = qp
    /\ db' = db
    /\ rv' = rv

\* The event of a query of p that returns `poll` from inside download_and_patch.
QueryEvent(p, poll, err) ==
    [NoEvent EXCEPT !.proc = p, !.op = "query", !.poll = poll, !.err = err,
                    !.inner = call[p].inner, !.n = call[p].n,
                    !.orig = call[p].orig, !.dst = call[p].dst,
                    !.found = call[p].found, !.wrote = call[p].wrote]

\* The invocation ends (a panic, a kill): its memory is gone, its lock dropped.
Dies(p) ==
    /\ pc' = [pc EXCEPT ![p] = "dead"]
    /\ lock' = IF lock = p THEN 0 ELSE lock
    /\ source_id' = [source_id EXCEPT ![p] = NoSource]
    /\ to_patch' = [to_patch EXCEPT ![p] = NoSource]
    /\ patch_paths' = [patch_paths EXCEPT ![p] = <<>>]
    /\ patched_packages' = [patched_packages EXCEPT ![p] = {}]
    /\ call' = [call EXCEPT ![p] = NoCall]
    /\ yielded_ids' = [yielded_ids EXCEPT ![p] = {}]

Panic(p, op, msg) ==
    /\ Dies(p)
    /\ Emit([NoEvent EXCEPT !.proc = p, !.op = op, !.poll = "panic", !.err = msg])

\* The query of p returns Ready(Err(msg)) from inside download_and_patch.
Fail(p, msg) ==
    /\ pc' = [pc EXCEPT ![p] = "idle"]
    /\ call' = [call EXCEPT ![p] = NoCall]
    /\ Emit(QueryEvent(p, "ReadyErr", msg))

----------------------------------------------------------------------------
(* PatchedSource::new, patched.rs:94-123.                                   *)

New(p, id) ==
    /\ pc[p] = "init"
    /\ \A q \in Procs : q < p => pc[q] # "init"
    /\ IF id.cksum \notin Registered
       THEN /\ pc' = [pc EXCEPT ![p] = "dead"]
            /\ Emit([NoEvent EXCEPT !.proc = p, !.op = "new", !.poll = "Err",
                           !.sid = id,
                           !.err = "no patch files registered for checksum"])
            /\ UNCHANGED <<source_id, to_patch, patch_paths>>
       ELSE /\ pc' = [pc EXCEPT ![p] = "idle"]
            /\ source_id' = [source_id EXCEPT ![p] = id]
            /\ to_patch' = [to_patch EXCEPT ![p] = FromUrl(id.url)]
            /\ patch_paths' = [patch_paths EXCEPT ![p] = PatchPaths(id.cksum)]
            /\ Emit([NoEvent EXCEPT !.proc = p, !.op = "new", !.poll = "Ok",
                                     !.sid = id])
    /\ UNCHANGED <<fs, lock, patched_packages, call, yielded_ids, marker_writers>>

\* SourceConfigMap::new or load fails, patched.rs:112-114.
NewLoadFails(p) ==
    /\ pc[p] = "init"
    /\ \A q \in Procs : q < p => pc[q] # "init"
    /\ pc' = [pc EXCEPT ![p] = "dead"]
    /\ \E id \in PatchedIds :
          /\ id.cksum \in Registered
          /\ Emit([NoEvent EXCEPT !.proc = p, !.op = "new", !.poll = "Err",
                                  !.sid = id, !.err = "load"])
    /\ UNCHANGED <<fs, lock, source_id, to_patch, patch_paths, patched_packages,
                   call, yielded_ids, marker_writers>>

----------------------------------------------------------------------------
(* The caller's package cache lock (CacheLockMode::DownloadExclusive).      *)

AcquireLock(p) ==
    /\ pc[p] = "idle"
    /\ lock = 0
    /\ lock' = p
    /\ Emit(NoEvent)
    /\ UNCHANGED <<fs, pc, source_id, to_patch, patch_paths, patched_packages,
                   call, yielded_ids, marker_writers>>

\* The invocation ends; the lock is held until then.
Exit(p) ==
    /\ pc[p] = "idle"
    /\ Dies(p)
    /\ Emit(NoEvent)
    /\ UNCHANGED <<fs, marker_writers>>

\* A check that some invocation holds the lock, not this one.
CacheLocked_anyHolder(p) == lock # 0

\* No check of the lock at all.
CacheLocked_unchecked(p) == TRUE

\* GlobalContext::assert_package_cache_locked, called at patched.rs:226-228.
CacheLocked(p) == lock = p

----------------------------------------------------------------------------
(* PatchedSource::query, patched.rs:302-336.                                *)

\* What query_vec of the wrapped source may return.
InnerAnswers(inner) ==
    { [poll |-> "Pending", summaries |-> <<>>],
      [poll |-> "Err", summaries |-> <<>>] }
    \cup { [poll |-> "Ok", summaries |-> s] : s \in QueryAnswers(inner) }

AllInnerAnswers == UNION {InnerAnswers(i) : i \in InnerIds}

\* A query that turns a pending answer into an error.
MatchInner_pendingIsError(answer) ==
    IF answer.poll = "Ok" THEN "summaries" ELSE "ReadyErr"

\* patched.rs:311-315: what query does with the answer of the wrapped source.
MatchInner(answer) ==
    IF answer.poll = "Ok" THEN "summaries"
    ELSE IF answer.poll = "Err" THEN "ReadyErr"
    ELSE "Pending"

\* A query that takes the first of several summaries.
ExactlyOne_atLeastOne(summaries) == Len(summaries) >= 1

\* patched.rs:317: how many summaries the query accepts.
ExactlyOne(summaries) == Len(summaries) = 1

\* patched.rs:308-322: query up to the call of download_and_patch.
Query(p, answer) ==
    /\ pc[p] = "idle"
    /\ IF to_patch[p] = NoSource
       THEN /\ answer = [poll |-> "Pending", summaries |-> <<>>]
            /\ Panic(p, "query", "must have source")
       ELSE /\ answer \in InnerAnswers(to_patch[p])
            /\ LET ev == [NoEvent EXCEPT !.proc = p, !.op = "query",
                                         !.inner = answer.poll,
                                         !.n = Len(answer.summaries)]
                   arm == MatchInner(answer)
               IN  IF arm # "summaries"
                   THEN /\ Emit([ev EXCEPT !.poll = arm,
                                       !.err = IF arm = "ReadyErr" THEN "inner query" ELSE ""])
                        /\ UNCHANGED <<pc, call>>
                   ELSE IF ~ExactlyOne(answer.summaries)
                   THEN /\ Emit([ev EXCEPT !.poll = "ReadyErr", !.err = "!!!!!!!!!!!!"])
                        /\ UNCHANGED <<pc, call>>
                   ELSE /\ Emit(NoEvent)
                        /\ pc' = [pc EXCEPT ![p] = "download_pkg"]
                        /\ call' = [call EXCEPT ![p] =
                              [NoCall EXCEPT !.orig = answer.summaries[1].package_id,
                                             !.inner = answer.poll,
                                             !.n = Len(answer.summaries)]]
            /\ UNCHANGED <<lock, source_id, to_patch, patch_paths,
                           patched_packages, yielded_ids>>
    /\ UNCHANGED <<fs, marker_writers>>

\* patched.rs:168-183 called at patched.rs:127; the download fails and the
\* source taken at line 172 is not put back.
DownloadPkgFails(p) ==
    /\ pc[p] = "download_pkg"
    /\ to_patch' = [to_patch EXCEPT ![p] = NoSource]
    /\ Fail(p, "download")
    /\ UNCHANGED <<fs, lock, source_id, patch_paths, patched_packages,
                   yielded_ids, marker_writers>>

\* patched.rs:127-144: the download succeeds, then the roots and dst are found.
DownloadPkg(p) ==
    /\ pc[p] = "download_pkg"
    /\ LET root == OrigRoot(call[p].orig)
           is_git == to_patch[p].kind = "git"
           repo == find_git_repo_root(root)
       IN  IF is_git /\ ~repo.ok
           THEN /\ Fail(p, "could not find git repository root")
                /\ UNCHANGED <<lock, source_id, to_patch, patch_paths,
                               patched_packages, yielded_ids>>
           ELSE IF ~CacheLocked(p)
           THEN Panic(p, "query", "package cache lock is not currently held")
           ELSE /\ pc' = [pc EXCEPT ![p] = "check"]
                /\ Emit(NoEvent)
                /\ call' = [call EXCEPT ![p] =
                      [@ EXCEPT !.is_git = is_git,
                                !.src_root = IF is_git THEN repo.root ELSE root,
                                !.sub = IF is_git
                                        THEN StripPrefixPath(root, repo.root)
                                        ELSE <<>>,
                                !.dst = patched_src_dir(source_id[p], to_patch[p],
                                            WithSourceId(call[p].orig, source_id[p]),
                                            is_git)]]
                /\ UNCHANGED <<lock, source_id, to_patch, patch_paths,
                               patched_packages, yielded_ids>>
    /\ UNCHANGED <<fs, marker_writers>>

\* A build that writes the marker before it applies the patches.
BuildSteps_markerBeforePatch == <<"remove", "copy", "marker", "patch">>

\* A build that copies over whatever an earlier attempt left.
BuildSteps_noRemove == <<"copy", "patch", "marker">>

\* patched.rs:150-158: the steps of a build, in the order they run.
BuildSteps == <<"remove", "copy", "patch", "marker">>

FirstStep == IF BuildSteps = <<>> THEN "load" ELSE BuildSteps[1]

StepAfter(step) ==
    LET i == CHOOSE k \in 1..Len(BuildSteps) : BuildSteps[k] = step
    IN  IF i = Len(BuildSteps) THEN "load" ELSE BuildSteps[i + 1]

\* A build that never looks at the marker.
MarkerExists_ignored(d) == FALSE

\* patched.rs:145-150: ready_lock.exists()
MarkerExists(d) == fs[d].exists /\ fs[d].ok

CheckMarker(p) ==
    /\ pc[p] = "check"
    /\ LET d == call[p].dst
       IN  IF MarkerExists(d)
           THEN /\ pc' = [pc EXCEPT ![p] = "load"]
                /\ call' = [call EXCEPT ![p].found = "ready"]
           ELSE /\ pc' = [pc EXCEPT ![p] = FirstStep]
                /\ call' = [call EXCEPT ![p].found =
                                IF fs[d].exists THEN "stale" ELSE "absent"]
    /\ Emit(NoEvent)
    /\ UNCHANGED <<fs, lock, source_id, to_patch, patch_paths, patched_packages,
                   yielded_ids, marker_writers>>

\* patched.rs:151-153
RemoveDir(p) ==
    /\ pc[p] = "remove"
    /\ LET d == call[p].dst
       IN  IF fs[d].exists
           THEN /\ fs' = [fs EXCEPT ![d] = NoEntry]
                /\ call' = [call EXCEPT ![p].wrote = TRUE]
           ELSE UNCHANGED <<fs, call>>
    /\ pc' = [pc EXCEPT ![p] = StepAfter("remove")]
    /\ Emit(NoEvent)
    /\ UNCHANGED <<lock, source_id, to_patch, patch_paths, patched_packages,
                   yielded_ids, marker_writers>>

\* walkdir::WalkDir::new(src): the root first, then the files below it.
Entries(src_root) == {<<>>} \cup FilesOf(SrcTree(src_root))

\* patched.rs:186-200, one entry of the walk.
CopyEntry(p, e) ==
    /\ pc[p] = "copy"
    /\ e \in Entries(call[p].src_root) \ call[p].copied
    /\ e # <<>> => <<>> \in call[p].copied
    /\ LET d == call[p].dst
           copied == call[p].copied \cup {e}
       IN  /\ IF e = <<>>
              THEN fs' = [fs EXCEPT ![d].exists = TRUE]
              ELSE /\ fs[d].exists
                   /\ fs' = [fs EXCEPT ![d].files[e] = SrcTree(call[p].src_root)[e]]
           /\ call' = [call EXCEPT ![p].copied = copied, ![p].wrote = TRUE]
           /\ pc' = [pc EXCEPT ![p] =
                        IF copied = Entries(call[p].src_root)
                        THEN StepAfter("copy") ELSE "copy"]
    /\ Emit(NoEvent)
    /\ UNCHANGED <<lock, source_id, to_patch, patch_paths, patched_packages,
                   yielded_ids, marker_writers>>

\* patched.rs:202-218 with patch.rs:26-70, one file patch of one patch file.
ApplyPatchStep(p) ==
    /\ pc[p] = "patch"
    /\ LET d == call[p].dst
           files == patch_paths[p]
           patchset == PatchSetOf(files[call[p].pi])
           r == ApplyFilePatch(fs[d].files, patchset[call[p].oi])
           last_op == call[p].oi = Len(patchset)
           last_file == call[p].pi = Len(files)
       IN  IF files = <<>>
           THEN /\ Panic(p, "query", "must have at least one patch")
                /\ fs' = fs
           ELSE /\ IF patchset = <<>>
                   THEN /\ Fail(p, "no valid patches found")
                        /\ fs' = fs
                   ELSE IF ~fs[d].exists \/ ~r.ok
                   THEN /\ Fail(p, "patch")
                        /\ fs' = fs
                   ELSE /\ fs' = [fs EXCEPT ![d].files = r.tree]
                        /\ call' = [call EXCEPT
                              ![p].wrote = TRUE,
                              ![p].oi = IF last_op THEN 1 ELSE @ + 1,
                              ![p].pi = IF last_op THEN @ + 1 ELSE @]
                        /\ pc' = [pc EXCEPT ![p] =
                              IF last_op /\ last_file
                              THEN StepAfter("patch") ELSE "patch"]
                        /\ Emit(NoEvent)
                /\ UNCHANGED <<lock, source_id, to_patch, patch_paths,
                               patched_packages, yielded_ids>>
    /\ UNCHANGED marker_writers

\* patched.rs:157
WriteMarker(p) ==
    /\ pc[p] = "marker"
    /\ LET d == call[p].dst
       IN  IF ~fs[d].exists
           THEN /\ Fail(p, "io")
                /\ UNCHANGED <<fs, marker_writers>>
           ELSE /\ fs' = [fs EXCEPT ![d].ok = TRUE]
                /\ call' = [call EXCEPT ![p].wrote = TRUE]
                /\ marker_writers' = [marker_writers EXCEPT ![d] = @ \cup {p}]
                /\ pc' = [pc EXCEPT ![p] = StepAfter("marker")]
                /\ Emit(NoEvent)
    /\ UNCHANGED <<lock, source_id, to_patch, patch_paths, patched_packages,
                   yielded_ids>>

\* A package loaded from the manifest the source being patched published.
root_package_unpatchedManifest(manifest, self_id, d, sub) ==
    [package_id |-> PkgId(ManifestTable["m_bar_100"].name,
                          ManifestTable["m_bar_100"].version, self_id),
     deps |-> ManifestTable["m_bar_100"].deps,
     dst |-> d, sub |-> sub]

\* A package loaded under the id of the source being patched.
root_package_innerSource(manifest, self_id, d, sub) ==
    [package_id |-> PkgId(ManifestTable[manifest].name,
                          ManifestTable[manifest].version, FromUrl(self_id.url)),
     deps |-> ManifestTable[manifest].deps,
     dst |-> d, sub |-> sub]

\* patched.rs:165: PathSource::new(&pkg_root, self.source_id, ..).root_package()
root_package(manifest, self_id, d, sub) ==
    [package_id |-> PkgId(ManifestTable[manifest].name,
                          ManifestTable[manifest].version, self_id),
     deps |-> ManifestTable[manifest].deps,
     dst |-> d, sub |-> sub]

\* patched.rs:329: patched_pkg.summary()
PackageSummary(pkg) == [package_id |-> pkg.package_id, deps |-> pkg.deps]

\* HashMap::insert
Insert(map, key, pkg) ==
    {e \in map : e.key # key} \cup {[key |-> key, pkg |-> pkg]}

\* patched.rs:160-165 and 323-335: load the package, cache it, yield its summary.
LoadPackage(p) ==
    /\ pc[p] = "load"
    /\ LET d == call[p].dst
           manifest == fs[d].files[call[p].sub \o <<"Cargo.toml">>]
       IN  IF ~fs[d].exists \/ ~IsManifest(manifest)
           THEN /\ Fail(p, "manifest")
                /\ UNCHANGED <<patched_packages, yielded_ids>>
           ELSE LET pkg == root_package(manifest, source_id[p], d, call[p].sub)
                IN  /\ patched_packages' = [patched_packages EXCEPT ![p] =
                            Insert(@, call[p].orig, pkg)]
                    /\ yielded_ids' = [yielded_ids EXCEPT ![p] =
                            @ \cup {pkg.package_id}]
                    /\ Emit([QueryEvent(p, "ReadyOk", "") EXCEPT
                                !.yielded = <<PackageSummary(pkg)>>,
                                !.pkg = pkg])
                    /\ pc' = [pc EXCEPT ![p] = "idle"]
                    /\ call' = [call EXCEPT ![p] = NoCall]
    /\ UNCHANGED <<fs, lock, source_id, to_patch, patch_paths, marker_writers>>

\* A filesystem call of the build fails: patched.rs:152, 193, 196, 157,
\* patch.rs:27.
IoError(p) ==
    /\ pc[p] \in {"remove", "copy", "patch", "marker"}
    /\ Fail(p, "io")
    /\ UNCHANGED <<fs, lock, source_id, to_patch, patch_paths, patched_packages,
                   yielded_ids, marker_writers>>

\* The invocation is killed; the operating system drops its file lock.
Crash(p) ==
    /\ pc[p] \notin {"init", "idle", "dead"}
    /\ Dies(p)
    /\ Emit(NoEvent)
    /\ UNCHANGED <<fs, marker_writers>>

----------------------------------------------------------------------------
(* PatchedSource::download, patched.rs:346-354.                             *)

Lookup(map, key) == {e \in map : e.key = key}

\* The package ids a resolver may ask a patched source for.
DownloadIds ==
    {PkgId(n, v, s) : n \in {"bar", "baz"}, v \in {"1.0.0", "1.0.1"},
                      s \in AllPatchedIds}

Download(p, id) ==
    /\ pc[p] = "idle"
    /\ id.source_id = source_id[p]
    /\ LET ev == [NoEvent EXCEPT !.proc = p, !.op = "download", !.req = id,
                                 !.req_yielded = id \in yielded_ids[p]]
           patch_with == WithSourceId(id, to_patch[p])
           hit == Lookup(patched_packages[p], patch_with)
           pkg == (CHOOSE e \in hit : TRUE).pkg
       IN  IF to_patch[p] = NoSource
           THEN /\ Dies(p)
                /\ Emit([ev EXCEPT !.poll = "panic", !.err = "must have source"])
           ELSE IF hit = {}
           THEN /\ Dies(p)
                /\ Emit([ev EXCEPT !.poll = "panic",
                      !.err = "patched source downloads package during query"])
           ELSE IF pkg.package_id # id
           THEN /\ Dies(p)
                /\ Emit([ev EXCEPT !.poll = "panic", !.err = "assert_eq"])
           ELSE /\ Emit([ev EXCEPT !.poll = "Ready", !.pkg = pkg])
                /\ UNCHANGED <<pc, lock, source_id, to_patch, patch_paths,
                               patched_packages, call, yielded_ids>>
    /\ UNCHANGED <<fs, marker_writers>>

\* Source::fingerprint of the source being patched: a string of the package.
InnerFingerprint(pkg) == <<pkg.package_id.name, pkg.package_id.version>>

\* The fingerprint with the directory-name prefix of the checksum.
fingerprint_shortCksum(inner_fp, cksum) == inner_fp \o <<"/">> \o ShortCksum(cksum)

\* patched.rs:364: format!("{fingerprint}/{cksum}") with the full checksum.
fingerprint(inner_fp, cksum) == inner_fp \o <<"/">> \o cksum

\* patched.rs:360-365: fingerprint(pkg); `ok` is whether the source being
\* patched could fingerprint the package.
Fingerprint(p, e, ok) ==
    /\ pc[p] = "idle"
    /\ e \in patched_packages[p]
    /\ LET ev == [NoEvent EXCEPT !.proc = p, !.op = "fingerprint", !.pkg = e.pkg,
                                 !.sid = source_id[p],
                                 !.inner = IF ok THEN "Ok" ELSE "Err"]
       IN  IF to_patch[p] = NoSource
           THEN /\ Dies(p)
                /\ Emit([ev EXCEPT !.poll = "panic", !.err = "must have source",
                                   !.inner = ""])
           ELSE /\ IF ok
                   THEN Emit([ev EXCEPT !.poll = "Ok", !.fp =
                              fingerprint(InnerFingerprint(e.pkg), source_id[p].cksum)])
                   ELSE Emit([ev EXCEPT !.poll = "Err", !.err = "fingerprint"])
                /\ UNCHANGED <<pc, lock, source_id, to_patch, patch_paths,
                               patched_packages, call, yielded_ids>>
    /\ UNCHANGED <<fs, marker_writers>>

\* The calls handed straight to the source being patched.
ForwardedOps == {"invalidate_cache", "set_quiet", "block_until_ready", "describe"}

\* patched.rs:338-344, 367-386: each goes through source_to_patch(_mut), which
\* expects the source to be there (patched.rs:262-268).
Forward(p, op) ==
    /\ pc[p] = "idle"
    /\ LET ev == [NoEvent EXCEPT !.proc = p, !.op = op, !.sid = source_id[p]]
       IN  IF to_patch[p] = NoSource
           THEN /\ Dies(p)
                /\ Emit([ev EXCEPT !.poll = "panic", !.err = "must have source"])
           ELSE /\ Emit([ev EXCEPT !.poll = "Ok"])
                /\ UNCHANGED <<pc, lock, source_id, to_patch, patch_paths,
                               patched_packages, call, yielded_ids>>
    /\ UNCHANGED <<fs, marker_writers>>

----------------------------------------------------------------------------
StepOver(p, ids) ==
        \/ \E id \in ids : New(p, id)
        \/ NewLoadFails(p)
        \/ AcquireLock(p)
        \/ Exit(p)
        \/ \E a \in AllInnerAnswers : Query(p, a)
        \/ DownloadPkgFails(p)
        \/ DownloadPkg(p)
        \/ CheckMarker(p)
        \/ RemoveDir(p)
        \/ \E e \in Paths \cup {<<>>} : CopyEntry(p, e)
        \/ ApplyPatchStep(p)
        \/ WriteMarker(p)
        \/ LoadPackage(p)
        \/ IoError(p)
        \/ Crash(p)
        \/ \E id \in DownloadIds : Download(p, id)
        \/ \E e \in patched_packages[p], ok \in BOOLEAN : Fingerprint(p, e, ok)
        \/ \E op \in ForwardedOps : Forward(p, op)

Step(p) == StepOver(p, PatchedIds)

Next == \E p \in Procs : Step(p)

\* Invocations sharing the cache directory.
Spec == Init /\ [][Next]_vars

\* One invocation alone, with what each call hands to its caller kept in `last`.
InitAdapter ==
    /\ Start /\ trace = TRUE /\ ap = ApIdle /\ mf = MfIdle /\ idn = IdnIdle
    /\ walk = WalkIdle /\ qp = QpIdle /\ db = DbIdle /\ rv = RvIdle

NextAdapter == Step(1)

SpecAdapter == InitAdapter /\ [][NextAdapter]_vars

\* The patched sources of one git repository: two packages of the repository,
\* patched with the same patch-set or with different ones.  The sources may
\* belong to one resolution: the process holds the cache lock and its
\* sources are queried in turn under it.
Turn(p) ==
    /\ pc[p] = "idle"
    /\ lock \in Procs \ {p}
    /\ pc[lock] = "idle"
    /\ lock' = p
    /\ Emit(NoEvent)
    /\ UNCHANGED <<fs, pc, source_id, to_patch, patch_paths, patched_packages,
                   call, yielded_ids, marker_writers>>

NextGit == \E p \in Procs : StepOver(p, GitPatchedIds) \/ Turn(p)

SpecGit == Init /\ [][NextGit]_vars

----------------------------------------------------------------------------
(* apply_patches (patched.rs:202-218) and apply_patch_file (patch.rs:26-70) *)
(* on their own: a patch-set is applied to a destination tree, one file     *)
(* operation at a time.                                                     *)

\* The most file operations in a patch-set, and the most patch files in it.
MaxOps == 2
MaxPatchFiles == 2

\* The files of the destination the patches name, and what they may hold.
ApPaths == {<<"Cargo.toml">>, <<"src", "lib.rs">>}
ApTexts == {"lib_empty", "lib_hello"}

\* The file patches diffy::PatchSet::from_str may hand to apply_patch_file.
ApOps ==
    {Create(<<"b">> \o p, "lib_hello") : p \in ApPaths \cup {OutsidePath}}
    \cup {Delete(<<"a">> \o p, "lib_empty") : p \in ApPaths}
    \cup {Modify(<<"a">> \o p, <<"b">> \o q, old, "lib_hola") :
            p \in ApPaths, q \in ApPaths, old \in ApTexts}

\* The destination trees before the patches.
ApTrees ==
    {t \in [Paths -> {NoFile} \cup ApTexts] : \A p \in Paths \ ApPaths : t[p] = NoFile}

\* Where the patch files end in a run of n operations: the ends of all the
\* patch files but the last.
ApCuts(n) ==
    UNION { {c \in [1..(j - 1) -> 0..n] : \A a \in 1..(j - 2) : c[a] <= c[a + 1]} :
            j \in 1..MaxPatchFiles }

\* The patch files of the run `ops` cut at `c`; a patch file may be empty.
ApCutAt(ops, c) ==
    [i \in 1..(Len(c) + 1) |->
        SubSeq(ops, (IF i = 1 THEN 0 ELSE c[i - 1]) + 1,
                    IF i = Len(c) + 1 THEN Len(ops) ELSE c[i])]

\* The patch-sets: the parsed patch files, in the order they are listed.
ApPatchSets ==
    UNION { {ApCutAt(ops, c) : ops \in [1..n -> ApOps], c \in ApCuts(n)} :
            n \in 0..MaxOps }

\* The directories on the way to a path, the destination root included.
Ancestors(dir) == {SubSeq(dir, 1, j) : j \in 0..Len(dir)}

\* The directories of a destination that holds `tree`.
ApDirsOf(tree) == UNION {Ancestors(Parent(p)) : p \in FilesOf(tree)} \cup {<<>>}

\* paths::create_dir_all, patch.rs:47-49 and 57-59
create_dir_all(dirs, dir) == dirs \cup Ancestors(dir)

InitApplier ==
    /\ Start
    /\ trace = FALSE
    /\ \E t \in ApTrees, set \in ApPatchSets :
          ap = [set |-> set, tree0 |-> t, tree |-> t, dirs |-> ApDirsOf(t),
                i |-> 1, k |-> 1, status |-> "run", err |-> ""]
    /\ mf = MfIdle
    /\ idn = IdnIdle
    /\ walk = WalkIdle /\ qp = QpIdle /\ db = DbIdle /\ rv = RvIdle

ApUnchanged ==
    UNCHANGED <<fs, lock, pc, source_id, to_patch, patch_paths, patched_packages,
                call, yielded_ids, marker_writers, last, trace, mf, idn,
                walk, qp, db, rv>>

\* A loop over the patch files from the last to the first.
CurrentFile_reversed(a) == a.set[Len(a.set) + 1 - a.i]

\* patched.rs:209: the patch file the loop of apply_patches is at.
CurrentFile(a) == a.set[a.i]

\* patch.rs:36: the file patch the loop of apply_patch_file is at.
CurrentOp(a) == CurrentFile(a)[a.k]

\* Why a file patch cannot be applied to a tree, patch.rs:42, 55, 56.
FailureOf(tree, fp) ==
    IF fp.op # "Create" /\ tree[StripComponents(fp.from)] = NoFile
    THEN "MissingSource" ELSE "HunkMismatch"

\* patch.rs:69 and patched.rs:209-217: a patch file is done with Ok(()); the
\* loop of apply_patches goes on to the next one, or ends with Ok(()).
FileDone(a) ==
    [a EXCEPT !.k = 1, !.i = @ + 1,
              !.status = IF a.i = Len(a.set) THEN "ok" ELSE "run"]

\* A loop that goes on after an operation that failed.
AfterOp_skipsFailure(a, r, dirs) ==
    LET b == IF r.ok THEN [a EXCEPT !.tree = r.tree, !.dirs = dirs] ELSE a
    IN  IF a.k = Len(CurrentFile(a)) THEN FileDone(b)
        ELSE [b EXCEPT !.k = @ + 1]

\* patch.rs:36-67: what follows an operation: the `?` returns its error,
\* otherwise the loop goes on to the next file patch.
AfterOp(a, r, dirs) ==
    IF ~r.ok
    THEN [a EXCEPT !.status = "err", !.err = FailureOf(a.tree, CurrentOp(a))]
    ELSE LET b == [a EXCEPT !.tree = r.tree, !.dirs = dirs]
         IN  IF a.k = Len(CurrentFile(a)) THEN FileDone(b)
             ELSE [b EXCEPT !.k = @ + 1]

\* A patch file is never taken to be empty.
IsEmptyPatchSet_never(patchset) == FALSE

\* patch.rs:32: patchset.is_empty()
IsEmptyPatchSet(patchset) == Len(patchset) = 0

\* patch.rs:32-34
ApEmptyPatch ==
    /\ ap.status = "run"
    /\ IsEmptyPatchSet(CurrentFile(ap))
    /\ ap' = [ap EXCEPT !.status = "err", !.err = "no valid patches found"]
    /\ ApUnchanged

\* patch.rs:36-66, one iteration of the loop (none when there is no file
\* patch to iterate over).
ApApplyOp ==
    /\ ap.status = "run"
    /\ ~IsEmptyPatchSet(CurrentFile(ap))
    /\ IF CurrentFile(ap) = <<>>
       THEN ap' = FileDone(ap)
       ELSE LET fp == CurrentOp(ap)
                to == StripComponents(fp.to)
                r == ApplyFilePatch(ap.tree, fp)
                dirs == IF r.ok /\ fp.op # "Delete"
                        THEN create_dir_all(ap.dirs, Parent(to)) ELSE ap.dirs
            IN  IF r.ok /\ fp.op # "Delete" /\ Parent(to) \notin dirs
                THEN ap' = [ap EXCEPT !.status = "err", !.err = "io"]
                ELSE ap' = AfterOp(ap, r, dirs)
    /\ ApUnchanged

\* A filesystem call fails: patch.rs:27, 42, 48, 50, 55, 58, 60, 63.
ApIoError ==
    /\ ap.status = "run"
    /\ ap' = [ap EXCEPT !.status = "err", !.err = "io"]
    /\ ApUnchanged

NextApplier == ApEmptyPatch \/ ApApplyOp \/ ApIoError

SpecApplier == InitApplier /\ [][NextApplier]_vars

----------------------------------------------------------------------------
(* One dependency entry of a manifest: resolve_source_id_from_dependency    *)
(* (toml/mod.rs:1840-1931) and patched_source_id (toml/mod.rs:1933-2013),   *)
(* as detailed_dep_to_dependency calls them.  The manifest stands at the    *)
(* workspace root, so a patch path is kept as the entry writes it.  A       *)
(* version requirement read from a manifest is never a locked one, and no   *)
(* entry here sets `registry-index`.                                        *)

CratesIoUrl == "https://github.com/rust-lang/crates.io-index"
CratesIoGit == "https://github.com/rust-lang/crates.io-index.git"
AltUrl      == "https://example.com/alternative-index"
GitRepoUrl  == "https://example.com/repo"
AltRegUrl   == "registry+https://example.com/alternative-index"
PathUrl     == "path+file:///foo/bar"

AltRegistryId == [kind |-> "registry", url |-> AltRegUrl, precise |-> "", cksum |-> NoCksum]
PathId        == [kind |-> "path", url |-> PathUrl, precise |-> "", cksum |-> NoCksum]

\* CanonicalUrl::new: a github url is the same with and without `.git`.
CanonicalUrl(url) == IF url = CratesIoGit THEN CratesIoUrl ELSE url

\* SourceId::canonical_url
canonical_url(id) ==
    IF id.url = RegUrl THEN CratesIoUrl
    ELSE IF id.url = AltRegUrl THEN AltUrl
    ELSE IF id.url = GitUrl THEN GitRepoUrl
    ELSE "file:///foo/bar"

\* SourceId::is_registry
is_registry(id) == id.kind = "registry"

\* The version requirements an entry may write: none, two caret requirements
\* (a partial and a full version), an exact one, and `=` with a partial version.
TomlVersions == {<<>>, <<"1">>, <<"1.0.0">>, <<"=", "1.0.0">>, <<"=", "1.0">>}

\* OptVersionReq::is_exact: the `=` operator with major, minor and patch.
is_exact(version) ==
    Len(version) = 2 /\ version[1] = "=" /\ version[2] \in {"1.0.0"}

\* toml/mod.rs:1974-1984: the version of an exact requirement without its
\* first character (the `=`), parsed as a version; "" when there is none.
exact_version(version) ==
    IF is_exact(version) /\ Tail(version) \in {<<"1.0.0">>}
    THEN Tail(version)[1] ELSE ""

\* The `patches` lists an entry may write: empty, or the files of a patch-set.
TomlPatches == {<<>>} \cup {PatchPaths(ck) : ck \in Registered}

\* TomlDetailedDependency: the keys of the entry that decide its source.
TomlDeps ==
    { [git |-> g, path |-> p, registry |-> r, version |-> v,
       has_patches |-> h, patches |-> l] :
          g \in BOOLEAN, p \in BOOLEAN, r \in {"", "alternative"},
          v \in TomlVersions, h \in BOOLEAN, l \in TomlPatches }
    \ { o \in [git : BOOLEAN, path : BOOLEAN, registry : {"", "alternative"},
               version : TomlVersions, has_patches : {FALSE},
               patches : TomlPatches \ {<<>>}] : TRUE }

\* The source id of the package whose manifest is parsed.
ManifestSourceId(m) == IF m.manifest_is_path THEN PathId ELSE RegistryId

\* resolve_source_id_from_dependency, toml/mod.rs:1840-1931
resolve_source_id_from_dependency(orig, manifest_source) ==
    IF orig.git /\ orig.registry # ""
    THEN [err |-> "only one of git or registry is allowed", id |-> NoSource]
    ELSE IF orig.git /\ orig.path
    THEN [err |-> "only one of git or path is allowed", id |-> NoSource]
    ELSE IF orig.git THEN [err |-> "", id |-> GitId]
    ELSE IF orig.path
    THEN [err |-> "", id |-> IF manifest_source.kind = "path"
                             THEN PathId ELSE manifest_source]
    ELSE IF orig.registry # "" THEN [err |-> "", id |-> AltRegistryId]
    ELSE [err |-> "", id |-> RegistryId]

\* Paths: absolute or relative, as their components.
AbsPath(comps) == [abs |-> TRUE, comps |-> comps]
RelPath(comps) == [abs |-> FALSE, comps |-> comps]

\* The directory of the manifest (the workspace root) and the directories
\* cargo may be started in.
ManifestRoot == AbsPath(<<"ws">>)
Cwds == {AbsPath(<<"ws">>), AbsPath(<<"ws", "member">>), AbsPath(<<>>),
         AbsPath(<<"other">>)}

\* A path as the manifest writes it.
TomlPath(name) ==
    IF name = "patches/hello.patch" THEN RelPath(<<"patches", "hello.patch">>)
    ELSE IF name = "patches/version.patch" THEN RelPath(<<"patches", "version.patch">>)
    ELSE IF name = "patches/one.patch" THEN RelPath(<<"patches", "one.patch">>)
    ELSE IF name = "patches/two.patch" THEN RelPath(<<"patches", "two.patch">>)
    ELSE RelPath(<<"patches", "bad.patch">>)

\* Path::join: an absolute path replaces the base.
path_join(base, path) ==
    IF path.abs THEN path ELSE [abs |-> base.abs, comps |-> base.comps \o path.comps]

\* Path::strip_prefix
strip_prefix(path, base) ==
    IF /\ path.abs = base.abs
       /\ Len(base.comps) <= Len(path.comps)
       /\ SubSeq(path.comps, 1, Len(base.comps)) = base.comps
    THEN [ok |-> TRUE,
          path |-> RelPath(SubSeq(path.comps, Len(base.comps) + 1, Len(path.comps)))]
    ELSE [ok |-> FALSE, path |-> path]

RECURSIVE NormalizeComps(_, _)
NormalizeComps(done, rest) ==
    IF rest = <<>> THEN done
    ELSE IF Head(rest) = "." THEN NormalizeComps(done, Tail(rest))
    ELSE IF Head(rest) = ".." /\ done # <<>> /\ done[Len(done)] # ".."
    THEN NormalizeComps(SubSeq(done, 1, Len(done) - 1), Tail(rest))
    ELSE NormalizeComps(Append(done, Head(rest)), Tail(rest))

\* paths::normalize_path
normalize_path(path) == [path EXCEPT !.comps = NormalizeComps(<<>>, path.comps)]

\* The patch path kept relative to the manifest root, whatever the cwd.
patch_path_relativeToRoot(cwd, name) ==
    strip_prefix(path_join(ManifestRoot, TomlPath(name)), ManifestRoot).path

\* toml/mod.rs:1993-1999: a path under the cwd is kept relative to it, any
\* other is kept absolute.
patch_path(cwd, name) ==
    LET path == path_join(ManifestRoot, TomlPath(name))
        rel  == strip_prefix(path, cwd)
    IN  IF rel.ok THEN rel.path ELSE normalize_path(path)

\* toml/mod.rs:1991-2001
resolved_patches(cwd, names) == [i \in 1..Len(names) |-> patch_path(cwd, names[i])]

\* SourceId::for_patches: the patch files are read for their checksum, they
\* are registered under it and the source id is wrapped.
for_patches(dep_source, names, patches, files_exist) ==
    IF dep_source.kind \in {"path", "patched"}
    THEN [err |-> "patches cannot wrap this source", warned |-> "", id |-> NoSource,
          paths |-> <<>>]
    ELSE IF ~files_exist
    THEN [err |-> "failed to checksum", warned |-> "", id |-> NoSource, paths |-> <<>>]
    ELSE [err |-> "", warned |-> "",
          id |-> PatchedId(dep_source,
                           CHOOSE ck \in Registered : PatchPaths(ck) = names),
          paths |-> patches]

\* The url of the patch table is not compared with the source of the entry.
patched_source_id_noSourceCheck(orig, dep_source, m) ==
    IF ~orig.has_patches THEN [err |-> "", warned |-> "", id |-> NoSource, paths |-> <<>>]
    ELSE IF ~m.in_patch_table
    THEN [err |-> "", warned |-> "unused manifest key", id |-> NoSource, paths |-> <<>>]
    ELSE IF ~m.patch_files
    THEN [err |-> "", warned |-> "ignoring patches", id |-> NoSource, paths |-> <<>>]
    ELSE IF ~is_registry(dep_source)
    THEN [err |-> "requires a registry source", warned |-> "", id |-> NoSource, paths |-> <<>>]
    ELSE IF exact_version(orig.version) = ""
    THEN [err |-> "requires an exact version", warned |-> "", id |-> NoSource, paths |-> <<>>]
    ELSE IF Len(orig.patches) = 0
    THEN [err |-> "requires at least one patch file", warned |-> "", id |-> NoSource, paths |-> <<>>]
    ELSE for_patches(dep_source, orig.patches, resolved_patches(m.cwd, orig.patches),
                     m.files_exist)

\* The patch-files flag is not looked at.
patched_source_id_ungated(orig, dep_source, m) ==
    IF ~orig.has_patches THEN [err |-> "", warned |-> "", id |-> NoSource, paths |-> <<>>]
    ELSE IF ~m.in_patch_table
    THEN [err |-> "", warned |-> "unused manifest key", id |-> NoSource, paths |-> <<>>]
    ELSE IF ~is_registry(dep_source)
    THEN [err |-> "requires a registry source", warned |-> "", id |-> NoSource, paths |-> <<>>]
    ELSE IF CanonicalUrl(m.url) # canonical_url(dep_source)
    THEN [err |-> "must refer to the same source", warned |-> "", id |-> NoSource, paths |-> <<>>]
    ELSE IF exact_version(orig.version) = ""
    THEN [err |-> "requires an exact version", warned |-> "", id |-> NoSource, paths |-> <<>>]
    ELSE IF Len(orig.patches) = 0
    THEN [err |-> "requires at least one patch file", warned |-> "", id |-> NoSource, paths |-> <<>>]
    ELSE for_patches(dep_source, orig.patches, resolved_patches(m.cwd, orig.patches),
                     m.files_exist)

\* patched_source_id, toml/mod.rs:1933-2013
patched_source_id(orig, dep_source, m) ==
    IF ~orig.has_patches THEN [err |-> "", warned |-> "", id |-> NoSource, paths |-> <<>>]
    ELSE IF ~m.in_patch_table
    THEN [err |-> "", warned |-> "unused manifest key", id |-> NoSource, paths |-> <<>>]
    ELSE IF ~m.patch_files
    THEN [err |-> "", warned |-> "ignoring patches", id |-> NoSource, paths |-> <<>>]
    ELSE IF ~is_registry(dep_source)
    THEN [err |-> "requires a registry source", warned |-> "", id |-> NoSource, paths |-> <<>>]
    ELSE IF CanonicalUrl(m.url) # canonical_url(dep_source)
    THEN [err |-> "must refer to the same source", warned |-> "", id |-> NoSource, paths |-> <<>>]
    ELSE IF exact_version(orig.version) = ""
    THEN [err |-> "requires an exact version", warned |-> "", id |-> NoSource, paths |-> <<>>]
    ELSE IF Len(orig.patches) = 0
    THEN [err |-> "requires at least one patch file", warned |-> "", id |-> NoSource, paths |-> <<>>]
    ELSE for_patches(dep_source, orig.patches, resolved_patches(m.cwd, orig.patches),
                     m.files_exist)

\* detailed_dep_to_dependency, toml/mod.rs:1833-1835: the dependency takes
\* the patched source id when there is one.
detailed_dep_to_dependency(m) ==
    LET r == resolve_source_id_from_dependency(m.orig, ManifestSourceId(m))
        q == patched_source_id(m.orig, r.id, m)
    IN  IF r.err # ""
        THEN [m EXCEPT !.status = "err", !.err = r.err]
        ELSE IF q.err # ""
        THEN [m EXCEPT !.status = "err", !.err = q.err]
        ELSE [m EXCEPT !.status = "ok", !.warned = q.warned,
                       !.source_id = IF q.id # NoSource THEN q.id ELSE r.id,
                       !.patch_info = q.paths]

\* patch_dep_to_dependency / dep_to_dependency, toml/mod.rs:1641-1674: an
\* entry of a [patch.<url>] table comes with the url of the table and the
\* patch-files flag, an entry of a dependency table with neither.
InitManifest ==
    /\ Start
    /\ trace = FALSE
    /\ ap = ApIdle
    /\ idn = IdnIdle
    /\ walk = WalkIdle /\ qp = QpIdle /\ db = DbIdle /\ rv = RvIdle
    /\ \E o \in TomlDeps, t \in BOOLEAN, u \in {CratesIoUrl, CratesIoGit, AltUrl, GitRepoUrl},
          f \in BOOLEAN, mp \in BOOLEAN, cwd \in Cwds, ex \in BOOLEAN :
          /\ ~t => (u = CratesIoUrl /\ ~f)
          /\ mf = [MfIdle EXCEPT !.in_patch_table = t, !.url = IF t THEN u ELSE "",
                                 !.patch_files = f, !.manifest_is_path = mp,
                                 !.orig = o, !.cwd = cwd, !.files_exist = ex,
                                 !.status = "parse"]

MfUnchanged ==
    UNCHANGED <<fs, lock, pc, source_id, to_patch, patch_paths, patched_packages,
                call, yielded_ids, marker_writers, last, trace, ap, idn,
                walk, qp, db, rv>>

ToDependency ==
    /\ mf.status = "parse"
    /\ mf' = detailed_dep_to_dependency(mf)
    /\ MfUnchanged

\* PatchedSource::apply_patches, patched.rs:209-215: the files it opens for
\* the patch paths registered for a patched dependency.
patch_files_opened(cwd, patch_files) ==
    [i \in 1..Len(patch_files) |-> path_join(cwd, patch_files[i])]

ApplyPatchesOpen ==
    /\ mf.status = "ok"
    /\ mf.source_id.kind = "patched"
    /\ mf.opened = <<>>
    /\ mf' = [mf EXCEPT !.opened = patch_files_opened(mf.cwd, mf.patch_info)]
    /\ MfUnchanged

NextManifest == ToDependency \/ ApplyPatchesOpen

SpecManifest == InitManifest /\ [][NextManifest]_vars

----------------------------------------------------------------------------
(* Source identity: the url form of a source id (to_url, from_url) and the  *)
(* checksum `register` gives a list of patch files.                         *)

GitBranchUrl == "git+https://example.com/repo?branch=dev"

GitBranchId  == [kind |-> "git", url |-> GitBranchUrl, precise |-> "", cksum |-> NoCksum]
GitPreciseId == [kind |-> "git", url |-> GitUrl, precise |-> "abc123", cksum |-> NoCksum]

\* The sources a patched id may wrap, and the source ids of every variant.
UrlInnerIds == {RegistryId, AltRegistryId, GitId, GitBranchId, GitPreciseId}

UrlIds ==
    UrlInnerIds \cup {PathId}
    \cup {PatchedId(inner, ck) :
             inner \in UrlInnerIds,
             ck \in {CkHello, CkVersion, CkGit, CkGitOne, CkBad, CkUnknown}}

\* The kind a url names before its first `+`.
KindOfUrl(url) ==
    IF url \in {RegUrl, AltRegUrl} THEN "registry"
    ELSE IF url \in {GitUrl, GitBranchUrl} THEN "git"
    ELSE "path"

\* Whether the url has a query string already.
HasQuery(url) == url = GitBranchUrl

\* The revision a source id is locked to, written after the url.
Fragment(id) == IF id.precise = "" THEN <<>> ELSE <<"#", id.precise>>

\* A url that keeps the first eight characters of the checksum only.
to_url_shortCksum(id) ==
    ( IF id.kind = "patched"
      THEN <<"patched+", id.url,
             IF HasQuery(id.url) THEN "&patch-cksum=" ELSE "?patch-cksum=",
             ShortCksum(id.cksum)>>
      ELSE <<id.url>> ) \o Fragment(id)

\* to_url: patched+<inner-url>?patch-cksum=<checksum>, as its parts.
to_url(id) ==
    ( IF id.kind = "patched"
      THEN <<"patched+", id.url,
             IF HasQuery(id.url) THEN "&patch-cksum=" ELSE "?patch-cksum=",
             id.cksum>>
      ELSE <<id.url>> ) \o Fragment(id)

\* from_url
from_url(u) ==
    LET patched == u[1] = "patched+"
        body    == IF patched THEN Tail(u) ELSE u
        frag    == IF patched THEN SubSeq(body, 4, Len(body)) ELSE Tail(body)
    IN  [kind    |-> IF patched THEN "patched" ELSE KindOfUrl(body[1]),
         url     |-> body[1],
         precise |-> IF frag = <<>> THEN "" ELSE frag[2],
         cksum   |-> IF patched THEN body[3] ELSE NoCksum]

\* The patch files a manifest may name and what they may hold.
MaxRegFiles == 2

RegNames == {"patches/a.patch", "patches/b.patch", "other/c.patch"}
RegContents == {"diff_x", "diff_y"}

RegLists == UNION {[1..n -> RegNames] : n \in 1..MaxRegFiles}

\* The contents of the files of a list, in the order of the list.
ContentsOf(files, list) == [i \in 1..Len(list) |-> files[list[i]]]

\* A digest of the paths together with the contents.
register_withPaths(files, list) ==
    [i \in 1..Len(list) |-> <<list[i], files[list[i]]>>]

\* register: the digest of the ordered contents of the files; two different
\* inputs of the digest never collide.
register(files, list) == ContentsOf(files, list)

InitIdentity ==
    /\ Start
    /\ trace = FALSE
    /\ ap = ApIdle
    /\ mf = MfIdle
    /\ walk = WalkIdle /\ qp = QpIdle /\ db = DbIdle /\ rv = RvIdle
    /\ \/ \E id \in UrlIds :
             idn = [IdnIdle EXCEPT !.op = "url", !.phase = "id", !.id = id]
       \/ \E files \in [RegNames -> RegContents], l1 \in RegLists, l2 \in RegLists :
             idn = [IdnIdle EXCEPT !.op = "register", !.phase = "lists",
                                   !.files = files, !.lists = <<l1, l2>>]

IdnUnchanged ==
    UNCHANGED <<fs, lock, pc, source_id, to_patch, patch_paths, patched_packages,
                call, yielded_ids, marker_writers, last, trace, ap, mf,
                walk, qp, db, rv>>

ToUrl ==
    /\ idn.phase = "id"
    /\ idn' = [idn EXCEPT !.phase = "url", !.url = to_url(idn.id)]
    /\ IdnUnchanged

ParseUrl ==
    /\ idn.phase = "url"
    /\ idn' = [idn EXCEPT !.phase = "parsed", !.back = from_url(idn.url)]
    /\ IdnUnchanged

\* The next list of patch files is registered.
Register ==
    /\ idn.phase = "lists"
    /\ LET k == Len(idn.cksums) + 1
       IN  idn' = [idn EXCEPT
                     !.cksums = Append(@, register(idn.files, idn.lists[k])),
                     !.phase = IF k = Len(idn.lists) THEN "registered" ELSE "lists"]
    /\ IdnUnchanged

NextIdentity == ToUrl \/ ParseUrl \/ Register

SpecIdentity == InitIdentity /\ [][NextIdentity]_vars

----------------------------------------------------------------------------
(* What a finished entry must hold.                                         *)

\* The directory download_and_patch copies from, for a package of the source
\* being patched: the repository root for git, the package root otherwise.
SrcRootOf(pkg_id) ==
    IF pkg_id.source_id.kind = "git"
    THEN find_git_repo_root(OrigRoot(pkg_id)).root
    ELSE OrigRoot(pkg_id)

\* The whole tree of the source with every patch file of the patch-set of the
\* target's checksum applied in order; ok is FALSE when a patch does not apply.
Materialized(t) ==
    ApplyPatchFiles(SrcTree(SrcRootOf(t[2])), PatchPaths(t[1].cksum))

\* The entry d holds the marker file.
Ready(d) == fs[d].exists /\ fs[d].ok

\* The invocation p is between its marker check and its marker write.
Building(p) == pc[p] \in {"remove", "copy", "patch", "marker"}

\* The invocation p is inside the part of download_and_patch that uses dst.
InEntry(p) == pc[p] \in {"check", "remove", "copy", "patch", "marker", "load"}

\* The target the invocation p is materializing.
TargetOf(p) == <<source_id[p], call[p].orig>>

----------------------------------------------------------------------------
C2_SuccessMeansOwnPatchSet ==
    \A p \in Procs :
        pc[p] = "load" =>
            /\ Ready(call[p].dst)
            /\ Materialized(TargetOf(p)).ok
            /\ fs[call[p].dst].files = Materialized(TargetOf(p)).tree

(* C3: no step changes or removes an entry that holds the marker, and an    *)
(* invocation that found the marker has written no file.                    *)
C3_ReadyImmutable ==
    /\ [](\A p \in Procs :
            (InEntry(p) /\ call[p].found = "ready") =>
                (pc[p] = "load" /\ ~call[p].wrote))
    /\ [][\A d \in Dsts : Ready(d) => fs'[d] = fs[d]]_vars

\* A second call for an entry an earlier build finished: it found the marker.
C3_Witness ==
    \E p \in Procs :
        /\ pc[p] = "load"
        /\ call[p].found = "ready"
        /\ marker_writers[call[p].dst] # {}

(* C4: an invocation that found its directory without the marker starts its *)
(* copy in a directory that no longer exists, and when its build succeeds   *)
(* the entry holds the fresh copy with the patches and nothing else.        *)
C4_CrashRecovery ==
    \A p \in Procs :
        call[p].found = "stale" =>
            /\ (pc[p] = "copy" /\ call[p].copied = {}) => ~fs[call[p].dst].exists
            /\ pc[p] = "load" =>
                    /\ Materialized(TargetOf(p)).ok
                    /\ fs[call[p].dst].files = Materialized(TargetOf(p)).tree

\* A rebuild of a directory left without the marker has succeeded.
C4_Witness ==
    \E p \in Procs : call[p].found = "stale" /\ pc[p] = "load"

(* C5: two invocations are never inside the same entry at once; of the      *)
(* invocations an entry is returned to, one wrote its marker and every      *)
(* other found the marker and wrote nothing; no invocation is building in   *)
(* an entry that holds the marker.                                          *)
C5_Serialized ==
    /\ \A p, q \in Procs :
          (p # q /\ InEntry(p) /\ InEntry(q)) => call[p].dst # call[q].dst
    /\ \A d \in Dsts : Cardinality(marker_writers[d]) <= 1
    /\ \A p \in Procs :
          pc[p] = "load" =>
              \/ (call[p].found = "ready" /\ ~call[p].wrote)
              \/ marker_writers[call[p].dst] = {p}
    /\ \A p \in Procs : Building(p) => ~Ready(call[p].dst)

\* One invocation built the entry and another one has found its marker.
C5_Witness ==
    \E p, q \in Procs :
        /\ p # q
        /\ pc[q] = "load"
        /\ call[q].found = "ready"
        /\ marker_writers[call[q].dst] = {p}

(* C6: an invocation holds the cache lock from before its marker check      *)
(* until the marker is written, and every step that changes the cache       *)
(* directory is taken by the invocation that holds the lock.                *)
C6_LockHeld ==
    /\ [](\A p \in Procs : (pc[p] = "check" \/ Building(p)) => lock = p)
    /\ [][fs' # fs =>
            \E p \in Procs : /\ lock = p
                             /\ Building(p)
                             /\ (call'[p] # call[p] \/ pc'[p] # pc[p])]_vars

\* The holder of the lock is about to write the marker while another
\* invocation is alive.
C6_Witness ==
    \E p, q \in Procs :
        p # q /\ pc[p] = "marker" /\ lock = p /\ pc[q] = "idle"

(* C7: a query whose wrapped source answered with zero or several           *)
(* summaries returns Ready(Err), yields nothing, and in the same step       *)
(* downloads nothing, touches no file and leaves the adapter as it was.     *)
C7_NotExactlyOne ==
    [][(last'.op = "query" /\ last'.inner = "Ok" /\ last'.n # 1) =>
            /\ last'.poll = "ReadyErr"
            /\ last'.yielded = <<>>
            /\ last'.orig = NoPkgId
            /\ last'.dst = NoDir
            /\ pc[last'.proc] = "idle"
            /\ UNCHANGED <<fs, pc, call, source_id, to_patch, patch_paths,
                           patched_packages, yielded_ids>>]_vars

\* A query answered with two summaries has returned.
C7_Witness == last.op = "query" /\ last.inner = "Ok" /\ last.n = 2

(* C8: a query returns Pending exactly when the wrapped source answered     *)
(* Pending, and then it yields nothing, touches no file and leaves the      *)
(* adapter as it was, so that the query can be repeated.                    *)
C8_PendingIffInnerPending ==
    [][last'.op = "query" =>
            /\ (last'.poll = "Pending") <=> (last'.inner = "Pending")
            /\ last'.poll = "Pending" =>
                  /\ last'.yielded = <<>>
                  /\ pc[last'.proc] = "idle"
                  /\ UNCHANGED <<fs, pc, call, source_id, to_patch, patch_paths,
                                 patched_packages, yielded_ids>>]_vars

\* A query has returned Pending.
C8_Witness == last.op = "query" /\ last.poll = "Pending"

(* C9: a query that returned Ready(Ok) yielded exactly one summary, whose   *)
(* source id is the patched source id, and the patched package is stored    *)
(* under the package id of the source being patched.                        *)
C9_YieldOnce ==
    (last.op = "query" /\ last.poll = "ReadyOk") =>
        /\ Len(last.yielded) = 1
        /\ last.yielded[1].package_id.source_id = source_id[last.proc]
        /\ last.yielded[1].package_id.source_id.kind = "patched"
        /\ last.yielded[1].package_id = last.pkg.package_id
        /\ last.orig.source_id = to_patch[last.proc]
        /\ last.orig.source_id.kind # "patched"
        /\ Lookup(patched_packages[last.proc], last.orig) =
              {[key |-> last.orig, pkg |-> last.pkg]}

\* A query has returned Ready(Ok) for a package of a git repository.
C9_Witness ==
    last.op = "query" /\ last.poll = "ReadyOk" /\ last.orig.source_id = GitId

(* C11: the summary a query yields carries the name, the version and the   *)
(* dependencies of the manifest that lies in the patched tree, also when    *)
(* the patch changed them.                                                  *)
C11_SummaryFromPatchedManifest ==
    (last.op = "query" /\ last.poll = "ReadyOk") =>
        LET m == ManifestTable[
                    fs[last.dst].files[last.pkg.sub \o <<"Cargo.toml">>]]
        IN  /\ Len(last.yielded) = 1
            /\ last.yielded[1].package_id.name = m.name
            /\ last.yielded[1].package_id.version = m.version
            /\ last.yielded[1].deps = m.deps

\* The yielded summary differs in version and dependencies from the package
\* of the source being patched.
C11_Witness ==
    /\ last.op = "query"
    /\ last.poll = "ReadyOk"
    /\ last.yielded[1].package_id.version # last.orig.version
    /\ last.yielded[1].deps #
          ManifestTable[SrcTree(OrigRoot(last.orig))[<<"Cargo.toml">>]].deps

(* C12: PatchedSource::new of an identifier whose checksum has no patch    *)
(* files registered fails with the error of the missing registration, the   *)
(* wrapped source is not loaded and no adapter comes to exist; every        *)
(* adapter that exists holds the registered patch files of its checksum.    *)
C12_RegisteredOnly ==
    /\ [](\A p \in Procs :
            pc[p] \notin {"init", "dead"} =>
                /\ PatchPaths(source_id[p].cksum) # <<>>
                /\ patch_paths[p] = PatchPaths(source_id[p].cksum))
    /\ [][(last'.op = "new" /\ PatchPaths(last'.sid.cksum) = <<>>) =>
            /\ last'.poll = "Err"
            /\ last'.err = "no patch files registered for checksum"
            /\ pc'[last'.proc] = "dead"
            /\ to_patch'[last'.proc] = NoSource
            /\ source_id'[last'.proc] = NoSource]_vars

\* PatchedSource::new was called with a checksum nothing is registered for.
C12_Witness ==
    last.op = "new" /\ last.sid.cksum = CkUnknown /\ last.poll = "Err"

(* C13: when the patch file apply_patch_file has read parses to no file    *)
(* patch, it fails with "no valid patches found" and no file or directory   *)
(* of the destination is changed; a patch-set with such a file never ends   *)
(* with success.                                                            *)
C13_EmptyPatch ==
    /\ [](ap.status = "ok" => \A i \in 1..Len(ap.set) : ap.set[i] # <<>>)
    /\ [][(ap.status = "run" /\ ap.set[ap.i] = <<>> /\ ap' # ap /\ ap'.err # "io") =>
            /\ ap'.status = "err"
            /\ ap'.err = "no valid patches found"
            /\ ap'.tree = ap.tree
            /\ ap'.dirs = ap.dirs]_vars

\* An empty patch file was rejected after an earlier patch file was applied.
C13_Witness ==
    /\ ap.status = "err"
    /\ ap.err = "no valid patches found"
    /\ ap.i = 2
    /\ ap.tree # ap.tree0

(* C10: a download of a package id that a successful query of the same      *)
(* adapter yielded returns Ready with the stored package, whose id is the   *)
(* id asked for, and does not panic.                                        *)
C10_DownloadAfterQuery ==
    (last.op = "download" /\ last.req_yielded) =>
        /\ last.poll = "Ready"
        /\ last.pkg.package_id = last.req

----------------------------------------------------------------------------
(* What the operations of a patch file are meant to do.                     *)

\* A path of a patch header without its first component.
Stripped(path) == Tail(path)

\* The files an operation names; /dev/null names none.
Named(fp) == {Stripped(path) : path \in {fp.from, fp.to} \ {<<>>}}

\* The operation can be carried out on the tree: the file it reads or
\* removes is there, and holds the text the hunk was made from.
OpApplicable(tree, fp) ==
    IF fp.op = "Create" THEN TRUE
    ELSE IF fp.op = "Delete" THEN tree[Stripped(fp.from)] # NoFile
    ELSE tree[Stripped(fp.from)] = fp.old

\* The tree after the operation was carried out.
Expected(tree, fp) ==
    IF fp.op = "Create" THEN [tree EXCEPT ![Stripped(fp.to)] = fp.new]
    ELSE IF fp.op = "Delete" THEN [tree EXCEPT ![Stripped(fp.from)] = NoFile]
    ELSE IF Stripped(fp.from) = Stripped(fp.to)
    THEN [tree EXCEPT ![Stripped(fp.to)] = fp.new]
    ELSE [[tree EXCEPT ![Stripped(fp.to)] = fp.new] EXCEPT ![Stripped(fp.from)] = NoFile]

RECURSIVE ExpectedAll(_, _)
\* The tree after the operations were carried out one after the other.
ExpectedAll(tree, ops) ==
    IF ops = <<>> THEN tree
    ELSE ExpectedAll(Expected(tree, Head(ops)), Tail(ops))

RECURSIVE Concat(_)
\* The operations of the patch files, in the order the files are listed.
Concat(files) == IF files = <<>> THEN <<>> ELSE Head(files) \o Concat(Tail(files))

\* The operations that lie before the place the run is at.
ApDone(a) ==
    Concat(SubSeq(a.set, 1, a.i - 1))
    \o (IF a.i <= Len(a.set) THEN SubSeq(a.set[a.i], 1, a.k - 1) ELSE <<>>)

\* The run has taken a step at an operation of a patch file.
ApStepAtOp == ap.status = "run" /\ ap' # ap /\ ap.set[ap.i] # <<>>

(* C15: within a patch file the operations are taken strictly in their      *)
(* order, each on the tree the earlier ones left; an operation that cannot  *)
(* be carried out ends the run with an error and leaves the tree as the     *)
(* earlier operations made it; after the end nothing more is applied.       *)
C15_InOrderNoRollback ==
    /\ [][ap.status # "run" => ap' = ap]_vars
    /\ [][ApStepAtOp =>
            LET fp == ap.set[ap.i][ap.k]
                more == ap.k < Len(ap.set[ap.i])
            IN  /\ ~OpApplicable(ap.tree, fp) => ap'.status = "err"
                /\ ap'.status = "err" =>
                      /\ ap'.tree = ap.tree
                      /\ ap'.i = ap.i /\ ap'.k = ap.k
                /\ ap'.status # "err" =>
                      /\ ap'.i = (IF more THEN ap.i ELSE ap.i + 1)
                      /\ ap'.k = (IF more THEN ap.k + 1 ELSE 1)
                      /\ \A path \in Paths \ Named(fp) :
                            ap'.tree[path] = ap.tree[path]]_vars

\* The second operation of a patch file failed and what the first one did
\* is still there.
C15_Witness ==
    /\ ap.status = "err"
    /\ ap.err \in {"MissingSource", "HunkMismatch"}
    /\ ap.i = 1 /\ ap.k = 2
    /\ ap.tree # ap.tree0

(* C16: at every point of a run the tree is the starting tree with the      *)
(* operations of the patch files carried out in the order the files are     *)
(* listed, up to the place the run is at; a run ends with success only      *)
(* after the last patch file, and a run that failed has applied nothing of  *)
(* the patch files after the failing one.                                   *)
C16_PatchFilesInOrder ==
    /\ ap.status # "idle" =>
          /\ ap.i \in 1..(Len(ap.set) + 1)
          /\ ap.tree = ExpectedAll(ap.tree0, ApDone(ap))
    /\ ap.status = "ok" => (ap.i = Len(ap.set) + 1 /\ ap.k = 1)
    /\ ap.status \in {"run", "err"} => ap.i <= Len(ap.set)

\* A run has ended with success in which the second patch file modified the
\* file the first patch file created.
C16_Witness ==
    /\ ap.status = "ok"
    /\ Len(ap.set) = 2
    /\ ap.set[1] # <<>> /\ ap.set[2] # <<>>
    /\ ap.set[1][1].op = "Create"
    /\ ap.set[2][1].op = "Modify"
    /\ Stripped(ap.set[2][1].from) = Stripped(ap.set[1][1].to)

(* C17: an operation that was carried out left the state its header pair    *)
(* asks for: a creation wrote the target with the added lines and made its  *)
(* parent directories; a deletion removed the source; equal paths rewrote   *)
(* the file in place; different paths wrote the target and removed the      *)
(* source; every other file is as it was.                                   *)
C17_OperationPostState ==
    [][(ApStepAtOp /\ ap'.status # "err") =>
            LET fp == ap.set[ap.i][ap.k]
                from == Stripped(fp.from)
                to == Stripped(fp.to)
            IN  /\ fp.op = "Create" =>
                      /\ ap'.tree = [ap.tree EXCEPT ![to] = fp.new]
                      /\ Ancestors(Parent(to)) \subseteq ap'.dirs
                /\ fp.op = "Delete" =>
                      /\ ap'.tree = [ap.tree EXCEPT ![from] = NoFile]
                      /\ ap'.dirs = ap.dirs
                /\ (fp.op = "Modify" /\ from = to) =>
                      /\ ap.tree[from] = fp.old
                      /\ ap'.tree = [ap.tree EXCEPT ![to] = fp.new]
                /\ (fp.op = "Modify" /\ from # to) =>
                      /\ ap.tree[from] = fp.old
                      /\ ap'.tree[to] = fp.new
                      /\ ap'.tree[from] = NoFile
                      /\ \A path \in Paths \ {from, to} : ap'.tree[path] = ap.tree[path]
                      /\ Ancestors(Parent(to)) \subseteq ap'.dirs]_vars

\* A file was created in a directory that was not there and then renamed.
C17_Witness ==
    /\ ap.status = "ok"
    /\ <<"src">> \notin ApDirsOf(ap.tree0)
    /\ <<"src">> \in ap.dirs
    /\ Len(Concat(ap.set)) = 2
    /\ Concat(ap.set)[1].op = "Create"
    /\ Concat(ap.set)[2].op = "Modify"
    /\ Concat(ap.set)[2].from # Concat(ap.set)[2].to

(* C18: a modification, a rename or a deletion whose source file is not in  *)
(* the destination ends the run with an error; the target is not written    *)
(* and nothing else changes.                                                *)
C18_MissingSource ==
    [][(/\ ApStepAtOp
        /\ ap.set[ap.i][ap.k].op \in {"Modify", "Delete"}
        /\ ap.tree[Stripped(ap.set[ap.i][ap.k].from)] = NoFile) =>
            /\ ap'.status = "err"
            /\ ap'.err \in {"MissingSource", "io"}
            /\ ap'.tree = ap.tree
            /\ ap'.dirs = ap.dirs]_vars

\* A rename whose source is not there has failed.
C18_Witness ==
    /\ ap.status = "err"
    /\ ap.err = "MissingSource"
    /\ ap.set[ap.i][ap.k].op = "Modify"
    /\ ap.set[ap.i][ap.k].from # ap.set[ap.i][ap.k].to
    /\ ap.tree[Stripped(ap.set[ap.i][ap.k].to)] = NoFile

----------------------------------------------------------------------------
\* The entry has been parsed: of a [patch] table, with the patch-files
\* feature on, and it has a `patches` key.
PatchesEntryParsed ==
    /\ mf.status \in {"ok", "err"}
    /\ mf.in_patch_table
    /\ mf.patch_files
    /\ mf.orig.has_patches

(* C19: a [patch] entry of a registry dependency (no `git`, no `path`)      *)
(* whose `patches` list is present and empty is rejected with the           *)
(* "requires at least one patch file" error, whatever its version and its   *)
(* `registry` are.                                                          *)
C19_EmptyPatchListRejected ==
    (PatchesEntryParsed /\ mf.orig.patches = <<>> /\ ~mf.orig.git /\ ~mf.orig.path)
        => (mf.status = "err" /\ mf.err = "requires at least one patch file")

(* C20: parsing never gives a dependency a Patched source id over a path    *)
(* source or over a Patched one, and a [patch] entry with `patches` and     *)
(* `path` is rejected with the error that names the path dependency.        *)
C20_PathDepRejected ==
    /\ (mf.status = "ok" /\ mf.source_id.kind = "patched")
           => mf.source_id.url \in {RegUrl, AltRegUrl, GitUrl}
    /\ (PatchesEntryParsed /\ mf.orig.path /\ ~mf.orig.git)
           => (mf.status = "err"
               /\ mf.err = "cannot use patches with a path dependency")

\* The source id the entry has before its `patches` key is looked at.
EntrySource == resolve_source_id_from_dependency(mf.orig, ManifestSourceId(mf)).id

\* A parsed registry entry (no `git`, no `path`) with a non-empty `patches`
\* list, in a [patch] table, with the feature on.
RegistryPatchesEntry ==
    /\ PatchesEntryParsed
    /\ ~mf.orig.git
    /\ ~mf.orig.path
    /\ mf.orig.patches # <<>>

(* C21: a [patch] entry of the table of a git repository, with `git` of     *)
(* that repository and a non-empty `patches` list, is accepted and its      *)
(* source id is a Patched one over the git source.                          *)
C21_GitEntryAccepted ==
    (PatchesEntryParsed /\ mf.orig.git /\ ~mf.orig.path /\ mf.orig.registry = ""
        /\ mf.orig.patches # <<>> /\ mf.url = GitRepoUrl)
        => (mf.status = "ok" /\ mf.source_id.kind = "patched"
            /\ mf.source_id.url = GitUrl)

(* C22: a registry entry of the same source as its [patch] table with a     *)
(* non-empty `patches` list is accepted when its version is written as a    *)
(* full version ("1.0.0"), and is rejected with "requires an exact version" *)
(* when the version is missing or partial.                                  *)
C22_ExactVersion ==
    (RegistryPatchesEntry /\ CanonicalUrl(mf.url) = canonical_url(EntrySource))
        => /\ mf.orig.version = <<"1.0.0">>
                => (mf.status = "ok" /\ mf.source_id.kind = "patched")
           /\ mf.orig.version \in {<<>>, <<"1">>, <<"=", "1.0">>}
                => (mf.status = "err" /\ mf.err = "requires an exact version")

(* C23: a registry entry with a non-empty `patches` list whose source is    *)
(* not the source its [patch] table names is rejected with "must refer to   *)
(* the same source", whatever its version, and gets no Patched source id.   *)
C23_MismatchedSource ==
    (RegistryPatchesEntry /\ CanonicalUrl(mf.url) # canonical_url(EntrySource))
        => /\ mf.status = "err"
           /\ mf.err = "must refer to the same source"
           /\ mf.source_id.kind # "patched"

C23_Witness ==
    /\ RegistryPatchesEntry
    /\ mf.orig.registry = "alternative"
    /\ mf.url = CratesIoUrl
    /\ mf.orig.version = <<"=", "1.0.0">>
    /\ mf.err = "must refer to the same source"

(* C24: a dependency gets a Patched source id only as an entry of a [patch] *)
(* table with the patch-files flag on and a `patches` key; in every other   *)
(* case the entry is parsed as if it had no `patches` key: it fails only    *)
(* where its source keys are ambiguous, and otherwise keeps the source id   *)
(* those keys give it.                                                      *)
C24_PatchedOnlyInPatchTable ==
    /\ (mf.status = "ok" /\ mf.source_id.kind = "patched")
           => (mf.in_patch_table /\ mf.patch_files /\ mf.orig.has_patches)
    /\ (mf.status \in {"ok", "err"}
        /\ ~(mf.in_patch_table /\ mf.patch_files /\ mf.orig.has_patches))
           => LET r == resolve_source_id_from_dependency(mf.orig, ManifestSourceId(mf))
              IN  IF r.err # ""
                  THEN mf.status = "err" /\ mf.err = r.err
                  ELSE mf.status = "ok" /\ mf.source_id = r.id

C24_Witness ==
    /\ mf.status = "ok"
    /\ mf.in_patch_table
    /\ ~mf.patch_files
    /\ mf.orig.has_patches
    /\ mf.orig.patches # <<>>
    /\ mf.orig.version = <<"=", "1.0.0">>
    /\ mf.url = CratesIoUrl
    /\ mf.source_id = RegistryId
    /\ mf.warned = "ignoring patches"

C26_MissingPatchFile ==
    (RegistryPatchesEntry /\ CanonicalUrl(mf.url) = canonical_url(EntrySource)
        /\ ~mf.files_exist /\ mf.orig.version \in {<<"1.0.0">>, <<"=", "1.0.0">>})
        => (mf.status = "err" /\ mf.err = "failed to checksum"
            /\ fs = [d \in Dsts |-> NoEntry])

\* Invocations p and q patch the same git repository with different patch-sets.
ConflictingPair(p, q) ==
    /\ p # q
    /\ to_patch[p] = GitId
    /\ to_patch[q] = GitId
    /\ source_id[p].cksum # source_id[q].cksum

(* C27: two patched sources of one git repository with different patch-sets *)
(* never both hand out a patched package (of two different packages of the  *)
(* repository): the second one fails.                                       *)
C27_ConflictingPatchSets ==
    \A p, q \in Procs :
        ConflictingPair(p, q)
            => ~ \E a \in patched_packages[p], b \in patched_packages[q] :
                    a.pkg.package_id.name # b.pkg.package_id.name

(* C28: for a git repository, the packages a patched source has loaded all  *)
(* come from one directory, each from its own subdirectory of it; the       *)
(* marker of a directory is written by one build only; and a query that     *)
(* found the marker has copied nothing, written nothing and applied no      *)
(* patch before it loads its package.                                       *)
C28_PerRepository ==
    /\ \A p \in Procs : \A a, b \in patched_packages[p] :
          to_patch[p] = GitId =>
          /\ a.pkg.dst = b.pkg.dst
          /\ a.pkg.sub = <<a.key.name>>
          /\ a.pkg.package_id.name = a.key.name
          /\ fs[a.pkg.dst].ok
    /\ \A d \in Dsts : d.rev # "" => Cardinality(marker_writers[d]) <= 1
    /\ \A p \in Procs :
          (pc[p] = "load" /\ call[p].is_git /\ call[p].found = "ready")
              => /\ ~call[p].wrote
                 /\ call[p].copied = {}
                 /\ call[p].pi = 1 /\ call[p].oi = 1
                 /\ fs[call[p].dst].ok

\* One source has loaded both packages of the repository: the first query
\* built the directory, the second found its marker.
C28_Witness ==
    \E p \in Procs :
        /\ to_patch[p] = GitId
        /\ {e.key.name : e \in patched_packages[p]} = {"bar", "baz"}
        /\ \A e \in patched_packages[p] : marker_writers[e.pkg.dst] = {p}

----------------------------------------------------------------------------
\* C31: fingerprint(pkg) is the fingerprint of the source being patched, then
\* "/", then the full patch checksum, so for one package another patch-set
\* gives the same fingerprint exactly when its full checksum is the same; an
\* error of the inner fingerprint is returned as the error of the call.
C31_FingerprintFullChecksum ==
    last.op = "fingerprint" =>
        /\ last.inner = "Ok" =>
            /\ last.poll = "Ok"
            /\ last.fp = InnerFingerprint(last.pkg) \o <<"/">> \o last.sid.cksum
            /\ \A other \in AllPatchedIds :
                 (InnerFingerprint(last.pkg) \o <<"/">> \o other.cksum = last.fp)
                     <=> (other.cksum = last.sid.cksum)
        /\ last.inner = "Err" => last.poll = "Err" /\ last.fp = <<>>

\* A fingerprint was returned for a patch-set whose checksum shares its
\* directory-name prefix with another patch-set.
C31_Witness ==
    /\ last.op = "fingerprint"
    /\ last.poll = "Ok"
    /\ \E other \in AllPatchedIds :
         /\ other.cksum # last.sid.cksum
         /\ ShortCksum(other.cksum) = ShortCksum(last.sid.cksum)

\* C32: the adapter holds the source being patched between operations: once
\* a query (and the download_pkg inside it) has returned, with success or with
\* an error, the source taken out for the package set is back, and no later
\* call panics with "must have source".
C32_InnerSourcePutBack ==
    /\ \A p \in Procs :
         (pc[p] = "idle" /\ source_id[p] # NoSource) => to_patch[p] # NoSource
    /\ ~(last.poll = "panic" /\ last.err = "must have source")

\* The positions of a query inside download_and_patch (patched.rs:126-165).
Materializing == {"download_pkg", "check", "remove", "copy", "patch", "marker", "load"}

\* C33: a query goes idle -> inner query -> (pending -> inner query)* ->
\* materializing -> ready: the cache directory changes only while materializing,
\* materializing starts only from an inner answer Ready with exactly one
\* summary, Ready(Ok) is returned only from the end of materializing with the
\* marker in place, and an error while materializing ends the query with
\* Ready(Err), back at idle, with the patched-package map as it was.
C33_QueryPhases ==
    [][ /\ fs' # fs => pc[1] \in Materializing
        /\ pc'[1] \in Materializing =>
             /\ pc[1] \in Materializing \cup {"idle"}
             /\ call'[1].inner = "Ok"
             /\ call'[1].n = 1
        /\ (pc[1] = "idle" /\ pc'[1] \in Materializing) => pc'[1] = "download_pkg"
        /\ (last'.op = "query" /\ last'.poll = "ReadyOk") =>
             /\ pc[1] = "load"
             /\ fs[last'.dst].exists /\ fs[last'.dst].ok
        /\ (pc[1] \in Materializing /\ last'.op = "query" /\ last'.poll = "ReadyErr") =>
             /\ pc'[1] = "idle"
             /\ patched_packages' = patched_packages
             /\ yielded_ids' = yielded_ids
      ]_vars

\* A query ended with an error after it had started to write the entry.
C33_Witness ==
    /\ last.op = "query"
    /\ last.poll = "ReadyErr"
    /\ last.err = "io"
    /\ fs[last.dst].exists
    /\ ~fs[last.dst].ok
    /\ pc[1] = "idle"

----------------------------------------------------------------------------
(* find_git_repo_root on its own (patched.rs:273-287), over checkouts that  *)
(* hold `.git` in any of their directories, and the package root that       *)
(* download_and_patch makes of its answer (patched.rs:131-165).             *)

\* The longest package root the walk starts from.
MaxDepth == 3

WalkNames == {"git-checkouts", "repo", "bar"}

\* Absolute paths as their components; <<>> is the root directory.
WalkPaths == UNION {[1..n -> WalkNames] : n \in 0..MaxDepth}

\* The directories that may hold a `.git` entry: at most two of them.
DotGitSets ==
    {ds \in SUBSET {d \in WalkPaths : Len(d) <= 2} : Cardinality(ds) <= 2}

\* A loop that gives up after the parent of the package root.
find_git_repo_root_loop_oneParent(w) ==
    IF w.current \in w.dotgit
    THEN [w EXCEPT !.status = "found", !.root = w.current]
    ELSE IF Len(w.current) = 0 \/ Len(w.current) < Len(w.start)
    THEN [w EXCEPT !.status = "error"]
    ELSE [w EXCEPT !.current = Parent(w.current)]

\* patched.rs:275-286: one turn of the loop.
find_git_repo_root_loop(w) ==
    IF w.current \in w.dotgit
    THEN [w EXCEPT !.status = "found", !.root = w.current]
    ELSE IF Len(w.current) = 0
    THEN [w EXCEPT !.status = "error"]
    ELSE [w EXCEPT !.current = Parent(w.current)]

\* The patched directory of the repository.
WalkDst == <<"patched-src", "dst">>

\* patched.rs:133-137, 161-164: the directory the package is loaded from.
pkg_root(dst, root, repo_root) ==
    LET sub == StripPrefixPath(root, repo_root)
    IN  IF sub # <<>> THEN dst \o sub ELSE dst

InitWalk ==
    /\ Start
    /\ trace = FALSE
    /\ ap = ApIdle /\ mf = MfIdle /\ idn = IdnIdle /\ qp = QpIdle /\ db = DbIdle
    /\ rv = RvIdle
    /\ \E start \in WalkPaths, ds \in DotGitSets :
          walk = [WalkIdle EXCEPT !.dotgit = ds, !.start = start,
                                  !.current = start, !.status = "walk"]

WalkUnchanged ==
    UNCHANGED <<fs, lock, pc, source_id, to_patch, patch_paths, patched_packages,
                call, yielded_ids, marker_writers, last, trace, ap, mf, idn,
                qp, db, rv>>

FindRootLoop ==
    /\ walk.status = "walk"
    /\ walk' = find_git_repo_root_loop(walk)
    /\ WalkUnchanged

LoadFromDst ==
    /\ walk.status = "found"
    /\ walk' = [walk EXCEPT !.status = "loaded",
                            !.pkg_root = pkg_root(WalkDst, walk.start, walk.root)]
    /\ WalkUnchanged

NextWalk == FindRootLoop \/ LoadFromDst

SpecWalk == InitWalk /\ [][NextWalk]_vars

\* `d` is `path` or one of its ancestors.
IsAncestorOrSelf(d, path) == Len(d) <= Len(path) /\ SubSeq(path, 1, Len(d)) = d

\* C34: the repository root of a git package is the nearest directory, from
\* the package root upward, that holds `.git`; the walk ends, with an error
\* when no such directory exists; the package is loaded from dst joined with
\* the package root relative to the repository root, dst itself when the
\* package is at the repository root.
C34_NearestGitRoot ==
    /\ [](LET holders == {d \in walk.dotgit : IsAncestorOrSelf(d, walk.start)}
          IN  /\ walk.status \in {"found", "loaded"} =>
                   /\ walk.root \in holders
                   /\ \A d \in holders : Len(d) <= Len(walk.root)
              /\ walk.status = "error" => holders = {}
              /\ walk.status = "loaded" =>
                   /\ walk.pkg_root = WalkDst \o
                        SubSeq(walk.start, Len(walk.root) + 1, Len(walk.start))
                   /\ walk.root = walk.start => walk.pkg_root = WalkDst
              /\ (walk.status \in {"found", "loaded"} /\ walk.dotgit = {GitCheckout}) =>
                   find_git_repo_root(walk.start) = [ok |-> TRUE, root |-> walk.root]
              /\ (walk.status = "error" /\ walk.dotgit = {GitCheckout}) =>
                   ~find_git_repo_root(walk.start).ok)
    /\ [][walk.status = "walk" =>
            \/ walk'.status \in {"found", "error"}
            \/ /\ walk'.status = "walk"
               /\ Len(walk'.current) < Len(walk.current)]_vars

\* A package two directories below the nearest `.git`, with another `.git`
\* further up, was loaded from its subdirectory of dst.
C34_Witness ==
    /\ walk.status = "loaded"
    /\ Len(walk.start) = Len(walk.root) + 2
    /\ \E d \in walk.dotgit : Len(d) < Len(walk.root) /\ IsAncestorOrSelf(d, walk.start)
    /\ walk.pkg_root # WalkDst

----------------------------------------------------------------------------
(* UrlExt::remove_query_params (cargo-util-schemas/src/url_ext.rs:8-27).     *)
(* A query is absent, or the segments between the `&` of the url, as         *)
(* written: `k=v`, `k` without `=`, or nothing at all between two `&`.       *)

\* The most segments of a query.
MaxPairs == 3

QueryKeys == {"patch-cksum", "rev"}

QueryValues == {"", "1"}

NoQuery == [some |-> FALSE, segs |-> <<>>]

EmptySegment == [k |-> "", v |-> "", eq |-> FALSE]

Segments ==
    {EmptySegment}
    \cup {[k |-> k, v |-> v, eq |-> TRUE] : k \in QueryKeys, v \in QueryValues}
    \cup {[k |-> k, v |-> "", eq |-> FALSE] : k \in QueryKeys}

Queries ==
    {NoQuery} \cup
    {[some |-> TRUE, segs |-> q] : q \in UNION {[1..n -> Segments] : n \in 0..MaxPairs}}

\* Url::query_pairs: the (key, value) pairs of the segments that are not empty.
query_pairs(query) ==
    LET IsPair(seg) == seg # EmptySegment
        kept == SelectSeq(query.segs, IsPair)
    IN  [i \in 1..Len(kept) |-> <<kept[i].k, kept[i].v>>]

\* form_urlencoded::Serializer: append_pair writes `k=v` for every pair.
Serialize(pairs) ==
    [i \in 1..Len(pairs) |-> [k |-> pairs[i][1], v |-> pairs[i][2], eq |-> TRUE]]

\* Url::set_query
set_query(segs) ==
    IF segs = <<>> THEN NoQuery ELSE [some |-> TRUE, segs |-> segs]

\* A removal that drops the first pair of a listed key and keeps the later ones.
remove_query_params_firstOnly(query, keys) ==
    LET pairs == query_pairs(query)
        Later(i) == \E j \in 1..(i - 1) : pairs[j][1] = pairs[i][1]
        idx == {i \in 1..Len(pairs) : pairs[i][1] \notin keys \/ Later(i)}
        RECURSIVE Pick(_)
        Pick(i) == IF i > Len(pairs) THEN <<>>
                   ELSE (IF i \in idx THEN <<pairs[i]>> ELSE <<>>) \o Pick(i + 1)
    IN  set_query(Serialize(Pick(1)))

\* url_ext.rs:9-26
remove_query_params(query, keys) ==
    LET Kept(pair) == pair[1] \notin keys
    IN  set_query(Serialize(SelectSeq(query_pairs(query), Kept)))

\* The patched url of an inner url: the reserved key is removed from the
\* inner query, then the pair of the checksum is appended.
ComposePatchedQuery(query) ==
    LET inner == remove_query_params(query, {"patch-cksum"})
    IN  [some |-> TRUE,
         segs |-> Append(inner.segs, [k |-> "patch-cksum", v |-> "1", eq |-> TRUE])]

InitQuery ==
    /\ Start
    /\ trace = FALSE
    /\ ap = ApIdle /\ mf = MfIdle /\ idn = IdnIdle /\ walk = WalkIdle /\ db = DbIdle
    /\ rv = RvIdle
    /\ \E query \in Queries, keys \in SUBSET QueryKeys :
          qp = [status |-> "url", query |-> query, keys |-> keys,
                once |-> NoQuery, twice |-> NoQuery, composed |-> NoQuery]

QpUnchanged ==
    UNCHANGED <<fs, lock, pc, source_id, to_patch, patch_paths, patched_packages,
                call, yielded_ids, marker_writers, last, trace, ap, mf, idn,
                walk, db, rv>>

RemoveQueryParams ==
    /\ qp.status = "url"
    /\ qp' = [qp EXCEPT !.status = "removed",
                        !.once = remove_query_params(qp.query, qp.keys)]
    /\ QpUnchanged

RemoveQueryParamsAgain ==
    /\ qp.status = "removed"
    /\ qp' = [qp EXCEPT !.status = "again",
                        !.twice = remove_query_params(qp.once, qp.keys)]
    /\ QpUnchanged

Compose ==
    /\ qp.status = "again"
    /\ qp' = [qp EXCEPT !.status = "composed",
                        !.composed = ComposePatchedQuery(qp.query)]
    /\ QpUnchanged

NextQuery == RemoveQueryParams \/ RemoveQueryParamsAgain \/ Compose

SpecQuery == InitQuery /\ [][NextQuery]_vars

\* The pairs of `query` whose key is not in `keys`, in their order.
PairsOutside(query, keys) ==
    LET Outside(pair) == pair[1] \notin keys
    IN  SelectSeq(query_pairs(query), Outside)

\* How many pairs of `query` have the key `key`.
CountKey(query, key) ==
    Cardinality({i \in 1..Len(query_pairs(query)) : query_pairs(query)[i][1] = key})

\* C35: remove_query_params(keys) removes every pair whose key is in keys,
\* all occurrences of it, keeps every other pair with its key, value and
\* place in the order, leaves the url without a query when no pair remains,
\* and applied twice gives what it gives applied once; with the key
\* patch-cksum removed the composed patched url has exactly one patch-cksum.
C35_RemoveQueryParams ==
    /\ qp.status \in {"removed", "again", "composed"} =>
         /\ query_pairs(qp.once) = PairsOutside(qp.query, qp.keys)
         /\ \A k \in qp.keys : CountKey(qp.once, k) = 0
         /\ qp.once.some <=> PairsOutside(qp.query, qp.keys) # <<>>
    /\ qp.status \in {"again", "composed"} => qp.twice = qp.once
    /\ qp.status = "composed" => CountKey(qp.composed, "patch-cksum") = 1

\* A url with the key twice and another pair between them went through the
\* removal of that key.
C35_Witness ==
    /\ qp.status = "composed"
    /\ qp.keys = {"patch-cksum"}
    /\ CountKey(qp.query, "patch-cksum") = 2
    /\ CountKey(qp.query, "rev") = 1
    /\ query_pairs(qp.query)[2][1] = "rev"
    /\ qp.once.some

----------------------------------------------------------------------------
\* C36: two patch-sets with different full checksums never share a cache
\* entry: the directory an invocation uses for a package is the directory of
\* no other patch-set of the same source and package, and an entry found
\* ready holds the tree made with the invocation's own patch-set.
C36_ChecksumSeparatesEntries ==
    \A p \in Procs :
        InEntry(p) =>
            /\ \A t \in Targets :
                 ( /\ t[2] = call[p].orig
                   /\ FromUrl(t[1].url) = to_patch[p]
                   /\ t[1].cksum # source_id[p].cksum )
                 => DstOf(t) # call[p].dst
            /\ (pc[p] = "load" /\ call[p].found = "ready") =>
                 fs[call[p].dst].files = Materialized(TargetOf(p)).tree

----------------------------------------------------------------------------
(* A git repository whose branch moves between the queries of a patched     *)
(* source of it: download_and_patch reduced to its directory name and its   *)
(* marker check (patched.rs:145-158, 224-249).                              *)

Revs == {"1a2b3c4d", "5e6f7a8b"}

\* The source id of the git source: locked to `precise`, or following the branch.
GitInner(precise) == [GitId EXCEPT !.precise = precise]

\* The revision the git source checks out for a query.
CheckedOut(precise, head) == IF precise = "" THEN head ELSE precise

RevDst(precise, ck) ==
    patched_src_dir(PatchedId(GitInner(precise), ck), GitInner(precise),
                    WithSourceId(GitBar, PatchedId(GitInner(precise), ck)), TRUE)

RevDsts == {RevDst(precise, ck) : precise \in Revs \cup {""}, ck \in {CkGit, CkGitOne}}

\* No entry: built from no revision, used for none.
NoRevEntry == [built |-> "", used |-> {}]

InitRevisions ==
    /\ Start
    /\ trace = FALSE
    /\ ap = ApIdle /\ mf = MfIdle /\ idn = IdnIdle
    /\ walk = WalkIdle /\ qp = QpIdle /\ db = DbIdle
    /\ \E head \in Revs :
          rv = [status |-> "run", head |-> head,
                entries |-> [d \in RevDsts |-> NoRevEntry],
                dst |-> NoDir, wanted |-> "", got |-> ""]

RvUnchanged ==
    UNCHANGED <<fs, lock, pc, source_id, to_patch, patch_paths, patched_packages,
                call, yielded_ids, marker_writers, last, trace, ap, mf, idn,
                walk, qp, db>>

\* A commit is pushed: the branch of the repository points to another revision.
Push(rev) ==
    /\ rv.status = "run"
    /\ rev # rv.head
    /\ rv' = [rv EXCEPT !.head = rev, !.dst = NoDir, !.wanted = "", !.got = ""]
    /\ RvUnchanged

\* patched.rs:145-158: a query of the patched source of the repository, its
\* inner source id locked to `precise` or not at all, with patch-set `ck`.
QueryGit(precise, ck) ==
    /\ rv.status = "run"
    /\ LET rev == CheckedOut(precise, rv.head)
           d == RevDst(precise, ck)
           e == rv.entries[d]
           built == IF e.built # "" THEN e.built ELSE rev
       IN  rv' = [rv EXCEPT !.entries[d] = [built |-> built, used |-> e.used \cup {rev}],
                            !.dst = d, !.wanted = rev, !.got = built]
    /\ RvUnchanged

NextRevisions ==
    \/ \E rev \in Revs : Push(rev)
    \/ \E precise \in Revs \cup {""}, ck \in {CkGit, CkGitOne} : QueryGit(precise, ck)

SpecRevisions == InitRevisions /\ [][NextRevisions]_vars

\* C37: two revisions of one git repository patched with the same patch-set
\* never share a cache entry: no directory is used for two revisions, also
\* when the inner source id has no precise revision, and the entry a query
\* returns was built from the revision the query checked out.
C37_RevisionSeparatesEntries ==
    /\ \A d \in RevDsts : Cardinality(rv.entries[d].used) <= 1
    /\ rv.wanted # "" => rv.got = rv.wanted

----------------------------------------------------------------------------
\* Path::join keeps a `..` of the joined path: the file is outside dst.
IsOutside(path) == path # <<>> /\ path[1] = ".."

\* C38: every file that apply_patch_file creates, writes or removes is inside
\* the destination directory, whatever paths the patch names: no file
\* outside dst differs from what it was before the run.
C38_StaysInsideDst ==
    \A path \in Paths : IsOutside(path) => ap.tree[path] = ap.tree0[path]

\* C39: a Delete operation removes the file only when the removed lines of
\* its hunk are the file's content; when they are not, the operation fails
\* and the file is kept.
C39_DeleteChecksHunk ==
    [][(ApStepAtOp /\ ap.set[ap.i][ap.k].op = "Delete") =>
          LET fp == ap.set[ap.i][ap.k]
              from == Tail(fp.from)
          IN  /\ (ap.tree[from] # NoFile /\ ap'.tree[from] = NoFile) =>
                    ap.tree[from] = fp.old
              /\ (ap.tree[from] # NoFile /\ ap.tree[from] # fp.old) =>
                    /\ ap'.status = "err"
                    /\ ap'.tree = ap.tree
      ]_vars

----------------------------------------------------------------------------
(* Db::open (sources/registry/db.rs:20-33): a static OnceCell<Mutex<Db>>    *)
(* filled by get_or_try_init, called by the threads of one process.         *)

\* The threads of the process, and the calls each of them makes at most.
NumThreads == 2
MaxCalls == 2

Threads == 1..NumThreads

DbPaths == {"index.db", "other.db"}

\* The empty cell.
NoDb == [path |-> "", by |-> 0]

NoResult == [kind |-> "", db |-> NoDb, path |-> ""]

\* An initializer that starts while another thread runs its own.
MayInitialize_unguarded(d) == d.cell = NoDb

\* OnceCell::get_or_try_init: the closure runs when the cell is empty and no
\* other thread is running its closure; the other threads wait.
MayInitialize(d) == d.cell = NoDb /\ d.running = 0

InitDb ==
    /\ Start
    /\ trace = FALSE
    /\ ap = ApIdle /\ mf = MfIdle /\ idn = IdnIdle
    /\ walk = WalkIdle /\ qp = QpIdle /\ rv = RvIdle
    /\ db = [status |-> "run", cell |-> NoDb, running |-> 0,
             tables |-> [f \in DbPaths |-> FALSE],
             at |-> [t \in Threads |-> "idle"],
             arg |-> [t \in Threads |-> ""],
             calls |-> [t \in Threads |-> 0],
             ret |-> [t \in Threads |-> NoResult],
             successes |-> 0, failed |-> FALSE]

DbUnchanged ==
    UNCHANGED <<fs, lock, pc, source_id, to_patch, patch_paths, patched_packages,
                call, yielded_ids, marker_writers, last, trace, ap, mf, idn,
                walk, qp, rv>>

\* db.rs:20-24: a thread calls Db::open(path).
Open(t, path) ==
    /\ db.at[t] = "idle"
    /\ db.calls[t] < MaxCalls
    /\ db' = [db EXCEPT !.at[t] = "get", !.arg[t] = path, !.calls[t] = @ + 1,
                        !.ret[t] = NoResult]
    /\ DbUnchanged

\* db.rs:25: the cell is full; the call returns what it holds.
Get(t) ==
    /\ db.at[t] = "get"
    /\ db.cell # NoDb
    /\ db' = [db EXCEPT !.at[t] = "idle", !.arg[t] = "",
                        !.ret[t] = [kind |-> "Ok", db |-> db.cell, path |-> db.arg[t]]]
    /\ DbUnchanged

\* db.rs:25: the cell is empty; the thread starts the closure.
StartInit(t) ==
    /\ db.at[t] = "get"
    /\ MayInitialize(db)
    /\ db' = [db EXCEPT !.at[t] = "open", !.running = t]
    /\ DbUnchanged

\* db.rs:26-28: Connection::open and the two pragmas; `ok` is their outcome.
OpenConnection(t, ok) ==
    /\ db.at[t] = "open"
    /\ db' = IF ok
             THEN [db EXCEPT !.at[t] = "table"]
             ELSE [db EXCEPT !.at[t] = "idle", !.arg[t] = "",
                             !.running = IF @ = t THEN 0 ELSE @, !.failed = TRUE,
                             !.ret[t] = [kind |-> "Err", db |-> NoDb, path |-> db.arg[t]]]
    /\ DbUnchanged

\* db.rs:29-30: the table is created and the cell is filled, or the `?`
\* returns the error and the cell stays empty.
CreateTable(t, ok) ==
    /\ db.at[t] = "table"
    /\ db' = IF ok
             THEN LET made == [path |-> db.arg[t], by |-> t]
                  IN  [db EXCEPT !.at[t] = "idle", !.arg[t] = "",
                                 !.running = IF @ = t THEN 0 ELSE @,
                                 !.tables[db.arg[t]] = TRUE,
                                 !.cell = made, !.successes = @ + 1,
                                 !.ret[t] = [kind |-> "Ok", db |-> made,
                                             path |-> db.arg[t]]]
             ELSE [db EXCEPT !.at[t] = "idle", !.arg[t] = "",
                             !.running = IF @ = t THEN 0 ELSE @, !.failed = TRUE,
                             !.ret[t] = [kind |-> "Err", db |-> NoDb, path |-> db.arg[t]]]
    /\ DbUnchanged

NextDb ==
    \E t \in Threads :
        \/ \E path \in DbPaths : Open(t, path)
        \/ Get(t)
        \/ StartInit(t)
        \/ \E ok \in BOOLEAN : OpenConnection(t, ok)
        \/ \E ok \in BOOLEAN : CreateTable(t, ok)

SpecDb == InitDb /\ [][NextDb]_vars

\* C40: Db::open is a singleton of the process: the first call that succeeds
\* opens the connection and creates the table, every later call returns that
\* same Db whatever its path, a first call that fails leaves the cell empty
\* for a later call to fill, and the closure succeeds at most once however
\* the first calls interleave.
C40_DbSingleton ==
    /\ [](/\ db.successes <= 1
          /\ db.cell = NoDb <=> db.successes = 0
          /\ db.cell # NoDb => db.tables[db.cell.path]
          /\ \A t \in Threads :
               /\ db.ret[t].kind = "Ok" => (db.cell # NoDb /\ db.ret[t].db = db.cell)
               /\ db.ret[t].kind = "Err" => db.ret[t].db = NoDb)
    /\ [][db.cell # NoDb => db'.cell = db.cell]_vars

\* After a call that failed, another call filled the cell, and a later call
\* with another path was handed the same Db.
C40_Witness ==
    /\ db.failed
    /\ db.cell # NoDb
    /\ \E t \in Threads :
         /\ db.ret[t].kind = "Ok"
         /\ db.ret[t].path # db.cell.path
         /\ db.cell.by # t

====
